---------------------------- MODULE Spec2Model ----------------------------
(***************************************************************************)
(* A model of the gopogo cache core: the Robin-Hood hash map               *)
(* (unnamed/part_003, internal/cache/types.go), the shard and cache        *)
(* operations of the operations file that the server is built against      *)
(* (unnamed/part_002, the version with SweepEvicted and the evicted bit),  *)
(* the clients that call them, and the server with its protocol layer     *)
(* (internal/server/server.go, internal/protocol): protocol detection,     *)
(* the RESP handler and the Memcache handler.                              *)
(*                                                                         *)
(* Go pointers to Entry objects are modelled by a heap: an entry id is a   *)
(* pointer, heap[id] is the object.  A bucket holds an id (or NIL), and so *)
(* does a Load that has left the shard lock.  Everything a cache method    *)
(* does between acquiring and releasing a shard lock is one step.          *)
(***************************************************************************)
EXTENDS Integers, Sequences, FiniteSets, TLC

VARIABLES
    shards,     \* Cache.shards: a sequence of Shard records (index i+1 is shard i)
    maxMemory,  \* Cache.maxMemory
    heap,       \* the Entry objects that are reachable, by pointer
    now,        \* time.Now().UnixNano(), in ticks
    procs,      \* per client: where it is inside a cache call, and its last result
    kv,         \* history: per key, what the calls so far have written and deleted
    steps,      \* history: number of cache calls issued since Init
    server,     \* server.Config: the password and the enabled protocols
    conns       \* per accepted connection: its bytes, its handler and the handler's state

vars == <<shards, maxMemory, heap, now, procs, kv, steps, server, conns>>

(***************************************************************************)
(* Bounds of the model.                                                    *)
(***************************************************************************)
\* Cache calls issued after Init, per specification.
MaxStepsKV == 3

\* The calls of the client and the ticks of the clock in SpecEvict.
MaxStepsEvict == 3

MaxTimeEvict == 3

\* The calls of the client in SpecLimit.
MaxStepsLimit == 4

\* The calls of the two clients and the ticks of the clock in SpecConc.
MaxStepsConc == 4

MaxTimeConc == 3

\* The calls of the two clients in SpecCAS.
MaxStepsCAS == 4

\* The calls of the client in SpecVersions and in SpecIncrement.
MaxStepsVersions == 4

MaxStepsIncrement == 4

\* The calls of the client and the ticks of the clock in SpecTTL.
MaxStepsTTL == 3

MaxTimeTTL == 3

\* The calls of the client in SpecPressure.
MaxStepsPressure == 4

\* The calls of the client in SpecOperations.
MaxStepsOperations == 3

\* The size of the buffer of a bufio.Reader (4096 in the program), and the
\* longest stream a client sends in SpecClassify and in SpecDetect.
BufSize == 8

MaxStreamClassify == 9

MaxStreamDetect == 10

\* The commands the first client of SpecSession sends.
MaxScriptSession == 2

\* The messages the client sends in SpecRESP and in SpecAuth.
MaxScriptRESP == 2

MaxScriptAuth == 2

\* The longest pattern and the longest key given to matchPattern in SpecMatch.
MaxPatternLen == 3

MaxKeyLen == 3

\* The calls of the client and the clock ticks in SpecVictim.
MaxStepsVictim == 4

MaxTimeVictim == 3

\* The calls of the client in SpecEvictLoop.
MaxStepsEvictLoop == 1

\* The calls of the client in SpecObservers.
MaxStepsObservers == 4

\* The messages of the client in SpecExpire.
MaxScriptExpire == 3

\* The requests of the client in SpecReject.
MaxScriptReject == 3

\* The queries of the connection and the calls of the cache client in SpecStall.
MaxScriptStall == 2

MaxStepsStall == 2

\* The connections accepted and the cache calls of the sweeper in SpecShutdown.
MaxConnsShutdown == 1

MaxStepsShutdown == 2

\* The cache calls begun in SpecLocks.
MaxStepsLocks == 2

\* The commands of each client in SpecConditional.
MaxScriptConditional == 1

\* The bytes that arrive at once in SpecWait.
MaxStreamWait == 14

\* The bytes that arrive at once in SpecHostile.
MaxChunkHostile == 8

\* The calls of the client in SpecStale, and the ticks of its clock.
MaxStepsStale == 3

MaxTimeStale == 3

(***************************************************************************)
(* Program constants.                                                      *)
(***************************************************************************)
MinMapSize == 16            \* NewMap: size := 16
EntryOverhead == 24         \* Entry.Size: len(key) + len(value) + 24
DistanceWidth == 65536      \* Bucket.distance is a uint16
IntBytes == 8               \* int64ToBytes: make([]byte, 8)
ByteBase == 256             \* byte(n), n >>= 8, n << 8
PeekSize == 8               \* Detect: d.reader.Peek(8)

Handlers == { "Redis", "HTTP", "Memcache", "Postgres" }

DefaultShards == 16         \* New: numShards <= 0 becomes 16

NIL == 0                    \* the nil *Entry

(***************************************************************************)
(* Keys and their hashes.  xxhash.Sum64 is a library outside the           *)
(* repository; it is modelled by a fixed table over the keys of the model, *)
(* with values picked so that keys share home buckets, two distinct keys   *)
(* share a full hash, and both shards of a two-shard cache are used.       *)
(***************************************************************************)
KeyList ==
    << <<1>>, <<2>>, <<3>>, <<4>>, <<5>>, <<6>>, <<7>>, <<8>>, <<9>>, <<10>>,
       <<11>>, <<12>>, <<13>>, <<14>>, <<1, 1>>, <<2, 2>>,
       <<84, 58, 75>>, <<84, 58, 76>> >>                        \* "T:K", "T:L"

HashList ==
    << 2, 18, 4, 6, 14, 30, 16, 34, 12, 20,
       8, 46, 23, 4, 2, 7,
       10, 26 >>

AllKeys == {KeyList[i] : i \in 1..Len(KeyList)}

hashKey(key) == HashList[CHOOSE i \in 1..Len(KeyList) : KeyList[i] = key]

RECURSIVE BitAnd(_, _)
BitAnd(a, b) ==
    IF a = 0 \/ b = 0 THEN 0
    ELSE (IF a % 2 = 1 /\ b % 2 = 1 THEN 1 ELSE 0) + 2 * BitAnd(a \div 2, b \div 2)

(***************************************************************************)
(* 64-bit integers.  TLC's integers have 32 bits, so a uint64 or an        *)
(* int64 whose overflow a client can reach (an entry's cas, the operands   *)
(* and results of Increment) is a tuple of four 16-bit limbs, least        *)
(* significant first; an int64 is the two's complement bit pattern.        *)
(***************************************************************************)
LimbBase == 65536

Limbs == 4

\* The 64-bit pattern of an integer z, -2^31 < z < 2^31 (sign-extended).
word64(z) ==
    LET fill == IF z < 0 THEN LimbBase - 1 ELSE 0 IN
    <<z % LimbBase, (z \div LimbBase) % LimbBase, fill, fill>>

MaxUint64 == [i \in 1..Limbs |-> LimbBase - 1]

\* a + b modulo 2^64.
RECURSIVE addLimbs(_, _, _, _)
addLimbs(a, b, i, carry) ==
    IF i > Limbs THEN <<>>
    ELSE LET sum == a[i] + b[i] + carry IN
         <<sum % LimbBase>> \o addLimbs(a, b, i + 1, sum \div LimbBase)

add64(a, b) == addLimbs(a, b, 1, 0)

\* a < b as unsigned 64-bit integers.
RECURSIVE lessFrom(_, _, _)
lessFrom(a, b, i) ==
    IF i = 0 THEN FALSE
    ELSE IF a[i] # b[i] THEN a[i] < b[i]
    ELSE lessFrom(a, b, i - 1)

less64(a, b) == lessFrom(a, b, Limbs)

\* byte(n): the low 8 bits.
lowByte(n) == n[1] % ByteBase

\* n >> 8 of an int64 (arithmetic: the sign bit is copied in).
shiftRight8(n) ==
    LET sign == IF n[Limbs] >= LimbBase \div 2 THEN ByteBase - 1 ELSE 0 IN
    [i \in 1..Limbs |->
        (n[i] \div ByteBase)
        + (LimbBase \div ByteBase) * (IF i < Limbs THEN n[i + 1] % ByteBase ELSE sign)]

\* (n << 8) | int64(b) for a byte b, modulo 2^64.
shiftLeft8Or(n, b) ==
    [i \in 1..Limbs |->
        ((n[i] * ByteBase) % LimbBase)
        + (IF i = 1 THEN b ELSE n[i - 1] \div (LimbBase \div ByteBase))]

(***************************************************************************)
(* Entry (types.go).                                                       *)
(***************************************************************************)
NewEntry(key, value) ==
    [key |-> key, value |-> value, expireAt |-> 0, flags |-> 0, cas |-> word64(0),
     evicted |-> FALSE]

NoEntry == NewEntry(<<>>, <<>>)

Size(e) == Len(e.key) + Len(e.value) + EntryOverhead

\* A variant that takes an entry for expired at the instant of its expiry.
IsExpiredAtExpiry(e, t) == e.expireAt > 0 /\ e.expireAt <= t

IsExpired(e, t) == e.expireAt > 0 /\ e.expireAt < t

\* The evicted bit: the methods are called by part_002 and are defined in no
\* file of src/; they read and write one bit of the entry.
IsEvicted(e) == e.evicted

SetEvicted(e, b) == [e EXCEPT !.evicted = b]

\* atomic.StoreInt64(&e.expireAt, t)
SetExpireAt(e, t) == [e EXCEPT !.expireAt = t]

\* atomic.AddUint64(&e.cas, 1)
\* A variant that leaves the counter alone.
IncrementCASMissing(e) == e

IncrementCAS(e) == [e EXCEPT !.cas = add64(@, word64(1))]

(***************************************************************************)
(* Map (types.go, part_003).                                               *)
(***************************************************************************)
EmptyBucket == [entry |-> NIL, hash |-> 0, distance |-> 0]

growAtOf(size) == (size * 3) \div 4         \* int(float64(size) * 0.75)

shrinkAtOf(size) == size \div 10            \* int(float64(size) * 0.10)

RECURSIVE mapSizeFor(_, _)
mapSizeFor(size, initialSize) ==
    IF size < initialSize THEN mapSizeFor(size * 2, initialSize) ELSE size

NewMap(initialSize) ==
    LET size == mapSizeFor(MinMapSize, initialSize) IN
    [buckets |-> [i \in 1..size |-> EmptyBucket],
     numItems |-> 0,
     mask |-> size - 1,
     growAt |-> growAtOf(size),
     shrinkAt |-> shrinkAtOf(size)]

\* Mutant: linear probing without displacing the richer resident.
RECURSIVE insertProbeNoSwap(_, _, _, _, _, _)
insertProbeNoSwap(buckets, mask, entry, hash, idx, distance) ==
    IF buckets[idx + 1].entry = NIL
    THEN [buckets EXCEPT ![idx + 1] =
              [entry |-> entry, hash |-> hash, distance |-> distance]]
    ELSE insertProbeNoSwap(buckets, mask, entry, hash,
             BitAnd(idx + 1, mask), (distance + 1) % DistanceWidth)

\* The probe loop of insertInternal; idx and distance are the loop variables.
RECURSIVE insertProbe(_, _, _, _, _, _)
insertProbe(buckets, mask, entry, hash, idx, distance) ==
    LET cur == buckets[idx + 1] IN
    IF cur.entry = NIL
    THEN [buckets EXCEPT ![idx + 1] =
              [entry |-> entry, hash |-> hash, distance |-> distance]]
    ELSE IF cur.distance < distance
    THEN insertProbe(
             [buckets EXCEPT ![idx + 1] =
                  [entry |-> entry, hash |-> hash, distance |-> distance]],
             mask, cur.entry, cur.hash,
             BitAnd(idx + 1, mask), (cur.distance + 1) % DistanceWidth)
    ELSE insertProbe(buckets, mask, entry, hash,
             BitAnd(idx + 1, mask), (distance + 1) % DistanceWidth)

insertInternal(m, entry, hash) ==
    [m EXCEPT !.buckets = insertProbe(m.buckets, m.mask, entry, hash,
                                      BitAnd(hash, m.mask), 0),
              !.numItems = @ + 1]

\* The loop of resize over oldBuckets[i], i = from-1 .. len-1.
RECURSIVE reinsertFrom(_, _, _)
reinsertFrom(m, oldBuckets, from) ==
    IF from > Len(oldBuckets) THEN m
    ELSE IF oldBuckets[from].entry # NIL
    THEN reinsertFrom(
             insertInternal(m, oldBuckets[from].entry, oldBuckets[from].hash),
             oldBuckets, from + 1)
    ELSE reinsertFrom(m, oldBuckets, from + 1)

resize(m, newSize) ==
    reinsertFrom(
        [buckets |-> [i \in 1..newSize |-> EmptyBucket],
         numItems |-> 0,
         mask |-> newSize - 1,
         growAt |-> growAtOf(newSize),
         shrinkAt |-> shrinkAtOf(newSize)],
        m.buckets, 1)

\* The byte-wise comparison of lookup (after the length check).
keyBytesMatch(key, other) == \A i \in 1..Len(key) : key[i] = other[i]

\* The probe loop of lookup: the index of the bucket holding key, or -1.
RECURSIVE lookupProbe(_, _, _, _, _, _)
lookupProbe(m, hp, key, hash, idx, distance) ==
    LET cur == m.buckets[idx + 1] IN
    IF cur.entry = NIL \/ cur.distance < distance THEN -1
    ELSE IF /\ cur.hash = hash
            /\ Len(hp[cur.entry].key) = Len(key)
            /\ keyBytesMatch(key, hp[cur.entry].key)
    THEN idx
    ELSE lookupProbe(m, hp, key, hash,
             BitAnd(idx + 1, m.mask), (distance + 1) % DistanceWidth)

lookup(m, hp, key, hash) == lookupProbe(m, hp, key, hash, BitAnd(hash, m.mask), 0)

\* The entry pointer lookup returns with the index.
entryAt(m, idx) == IF idx = -1 THEN NIL ELSE m.buckets[idx + 1].entry

get(m, hp, key) == entryAt(m, lookup(m, hp, key, hashKey(key)))

\* Mutant: delete clears the bucket and leaves the hole.
shiftBackMissing(buckets, mask, idx) == buckets

\* A variant of the loop of delete that moves buckets back as they are.
RECURSIVE shiftBackSameDistance(_, _, _)
shiftBackSameDistance(buckets, mask, idx) ==
    LET nextIdx == BitAnd(idx + 1, mask)
        nxt == buckets[nextIdx + 1]
    IN  IF nxt.entry # NIL /\ nxt.distance > 0
        THEN shiftBackSameDistance(
                 [buckets EXCEPT ![idx + 1] = nxt,
                                 ![nextIdx + 1] = [nxt EXCEPT !.entry = NIL]],
                 mask, nextIdx)
        ELSE buckets

\* The backward-shift loop of delete; idx is the hole.
RECURSIVE shiftBack(_, _, _)
shiftBack(buckets, mask, idx) ==
    LET nextIdx == BitAnd(idx + 1, mask)
        nxt == buckets[nextIdx + 1]
    IN  IF nxt.entry # NIL /\ nxt.distance > 0
        THEN shiftBack(
                 [buckets EXCEPT
                      ![idx + 1] = [nxt EXCEPT !.distance = @ - 1],
                      ![nextIdx + 1] = [nxt EXCEPT !.entry = NIL]],
                 mask, nextIdx)
        ELSE buckets

\* delete: the map afterwards and the removed entry (NIL when absent).
delete(m, hp, key, hash) ==
    LET idx == lookup(m, hp, key, hash) IN
    IF idx = -1 THEN [m |-> m, entry |-> NIL]
    ELSE
        LET cleared == [m.buckets EXCEPT ![idx + 1].entry = NIL]
            shifted == [m EXCEPT !.buckets = shiftBack(cleared, m.mask, idx),
                                 !.numItems = @ - 1]
        IN  [m |-> IF shifted.numItems < shifted.shrinkAt
                      /\ Len(shifted.buckets) > MinMapSize
                   THEN resize(shifted, Len(shifted.buckets) \div 2)
                   ELSE shifted,
             entry |-> entryAt(m, idx)]

\* The smallest pointer not in use.
newPointer(hp) == CHOOSE id \in 1..(Cardinality(DOMAIN hp) + 1) : id \notin DOMAIN hp

\* A variant whose update in place leaves the cas of the entry alone.
insertKeepsCAS(m, hp, e) ==
    LET hash == hashKey(e.key)
        existing == entryAt(m, lookup(m, hp, e.key, hash))
    IN  IF existing # NIL
        THEN [m |-> m,
              hp |-> [hp EXCEPT ![existing] = [@ EXCEPT !.value = e.value,
                                                        !.expireAt = e.expireAt,
                                                        !.flags = e.flags]],
              found |-> TRUE,
              old |-> hp[existing]]
        ELSE
            LET id == newPointer(hp)
                grown == IF m.numItems >= m.growAt
                         THEN resize(m, Len(m.buckets) * 2)
                         ELSE m
            IN  [m |-> insertInternal(grown, id, hash),
                 hp |-> [i \in DOMAIN hp \cup {id} |-> IF i = id THEN e ELSE hp[i]],
                 found |-> FALSE,
                 old |-> NoEntry]

\* A variant of insert that grows the table only once the threshold is
\* exceeded.
insertGrowsLate(m, hp, e) ==
    LET hash == hashKey(e.key)
        existing == entryAt(m, lookup(m, hp, e.key, hash))
    IN  IF existing # NIL
        THEN [m |-> m,
              hp |-> [hp EXCEPT ![existing] =
                         IncrementCAS([@ EXCEPT !.value = e.value,
                                                !.expireAt = e.expireAt,
                                                !.flags = e.flags])],
              found |-> TRUE,
              old |-> hp[existing]]
        ELSE
            LET id == newPointer(hp)
                grown == IF m.numItems > m.growAt
                         THEN resize(m, Len(m.buckets) * 2)
                         ELSE m
            IN  [m |-> insertInternal(grown, id, hash),
                 hp |-> [i \in DOMAIN hp \cup {id} |-> IF i = id THEN e ELSE hp[i]],
                 found |-> FALSE,
                 old |-> NoEntry]

\* insert(entry): the map and heap afterwards; found says that the key was
\* present, and old is then the copy of the entry taken before the update.
insert(m, hp, e) ==
    LET hash == hashKey(e.key)
        existing == entryAt(m, lookup(m, hp, e.key, hash))
    IN  IF existing # NIL
        THEN [m |-> m,
              hp |-> [hp EXCEPT ![existing] =
                         IncrementCAS([@ EXCEPT !.value = e.value,
                                                !.expireAt = e.expireAt,
                                                !.flags = e.flags])],
              found |-> TRUE,
              old |-> hp[existing]]
        ELSE
            LET id == newPointer(hp)
                grown == IF m.numItems >= m.growAt
                         THEN resize(m, Len(m.buckets) * 2)
                         ELSE m
            IN  [m |-> insertInternal(grown, id, hash),
                 hp |-> [i \in DOMAIN hp \cup {id} |-> IF i = id THEN e ELSE hp[i]],
                 found |-> FALSE,
                 old |-> NoEntry]


\* randomEntries(n): the loop over the buckets; i is the bucket index + 1.
RECURSIVE randomWalk(_, _, _, _, _)
randomWalk(m, n, i, seen, entries) ==
    IF ~(i <= Len(m.buckets) /\ Len(entries) < n) THEN entries
    ELSE IF m.buckets[i].entry # NIL
    THEN randomWalk(m, n, i + 1, seen + 1,
             IF seen % ((m.numItems \div n) + 1) = 0
             THEN Append(entries, m.buckets[i].entry)
             ELSE entries)
    ELSE randomWalk(m, n, i + 1, seen, entries)

randomEntries(m, n) ==
    IF n <= 0 \/ m.numItems = 0 THEN <<>> ELSE randomWalk(m, n, 1, 0, <<>>)

\* iter with a callback that collects the keys of the entries satisfying a
\* test and always continues (the use Sweep and SweepEvicted make of it):
\* the entries of the occupied buckets in index order.
iter(m) ==
    LET occupied == {i \in 1..Len(m.buckets) : m.buckets[i].entry # NIL}
        RECURSIVE walk(_)
        walk(i) ==
            IF i > Len(m.buckets) THEN <<>>
            ELSE IF i \in occupied THEN <<m.buckets[i].entry>> \o walk(i + 1)
            ELSE walk(i + 1)
    IN  walk(1)

(***************************************************************************)
(* Shard and Cache construction (types.go).                                *)
(***************************************************************************)
NewShard(shardMaxMem) ==
    [m |-> NewMap(MinMapSize),
     memUsed |-> 0,
     maxMemory |-> shardMaxMem,
     numOps |-> 0, numHits |-> 0, numMisses |-> 0,
     numEvicted |-> 0, numExpired |-> 0]

\* Go's integer division truncates toward zero.
goDiv(a, b) == IF a >= 0 THEN a \div b ELSE -((-a) \div b)

New(numShards, limit) ==
    LET n == IF numShards <= 0 THEN DefaultShards ELSE numShards IN
    [i \in 1..n |-> NewShard(goDiv(limit, n))]

\* getShard: the index (from 1) of the shard of key in a cache of n shards.
getShard(n, key) == (hashKey(key) % n) + 1

RECURSIVE sumMemUsed(_, _)
sumMemUsed(shs, i) == IF i > Len(shs) THEN 0 ELSE shs[i].memUsed + sumMemUsed(shs, i + 1)

\* Cache.MemUsed
MemUsed(shs) == sumMemUsed(shs, 1)

\* Cache.Stats: the sums of the shards' counters, and hit_rate as the
\* fraction float64(hits) / float64(hits+misses) when ops > 0, else 0.0.
\* The quotient of two zeros is NaN in float64.
RECURSIVE sumCounter(_, _, _)
sumCounter(shs, counter, i) ==
    IF i > Len(shs) THEN 0 ELSE shs[i][counter] + sumCounter(shs, counter, i + 1)

RECURSIVE sumNumItems(_, _)
sumNumItems(shs, i) ==
    IF i > Len(shs) THEN 0 ELSE shs[i].m.numItems + sumNumItems(shs, i + 1)

Stats(shs, maxMem) ==
    LET ops == sumCounter(shs, "numOps", 1)
        hits == sumCounter(shs, "numHits", 1)
        misses == sumCounter(shs, "numMisses", 1)
    IN  [num_items |-> sumNumItems(shs, 1),
         mem_used |-> sumCounter(shs, "memUsed", 1),
         max_memory |-> maxMem,
         num_ops |-> ops,
         num_hits |-> hits,
         num_misses |-> misses,
         num_evicted |-> sumCounter(shs, "numEvicted", 1),
         num_expired |-> sumCounter(shs, "numExpired", 1),
         hit_rate |-> IF ops > 0
                      THEN IF hits + misses = 0 THEN <<"NaN">> ELSE <<hits, hits + misses>>
                      ELSE <<0, 1>>]

(***************************************************************************)
(* Increment's integer encoding (part_002).                                *)
(***************************************************************************)
\* for i := 7; i >= 0; i-- { b[i] = byte(n); n >>= 8 }: the bytes b[0..count-1].
RECURSIVE int64Digits(_, _)
int64Digits(n, count) ==
    IF count = 0 THEN <<>>
    ELSE Append(int64Digits(shiftRight8(n), count - 1), lowByte(n))

\* A variant that writes the low byte first.
int64ToBytesLittleEndian(n) ==
    LET b == int64Digits(n, IntBytes) IN [i \in 1..IntBytes |-> b[IntBytes + 1 - i]]

int64ToBytes(n) == int64Digits(n, IntBytes)

\* for i := 0; i < 8; i++ { n = (n << 8) | int64(b[i]) }
RECURSIVE int64Fold(_, _, _)
int64Fold(b, i, n) ==
    IF i > Len(b) THEN n ELSE int64Fold(b, i + 1, shiftLeft8Or(n, b[i]))

bytesToInt64(b) == IF Len(b) # IntBytes THEN word64(0) ELSE int64Fold(b, 1, word64(0))

(***************************************************************************)
(* Cache operations on one shard (part_002).  Each takes the shard sh, the *)
(* heap hp and the time t and gives what holds when the shard lock is      *)
(* released: a record with the shard, the heap and the result.  Where the  *)
(* code draws a random number the operation gives the set of outcomes.     *)
(***************************************************************************)
addMemUsed(sh, delta) == [sh EXCEPT !.memUsed = @ + delta]

\* StoreOptions; a nil *StoreOptions leaves the same entry as the zero value.
StoreOptions(ttl, flags, cas) == [TTL |-> ttl, Flags |-> flags, CAS |-> cas]

NilOptions == StoreOptions(0, 0, word64(0))

\* if opts.TTL > 0 { expireAt = time.Now().Add(opts.TTL).UnixNano() }
expiryOf(opts, t) == IF opts.TTL > 0 THEN t + opts.TTL ELSE 0

\* The victim choice of one round of evictIfNeeded: the pointers it may pick.
victims(entries, hp, t) ==
    IF Len(entries) = 1 THEN {entries[1]}
    ELSE
        LET e0 == hp[entries[1]]
            e1 == hp[entries[2]]
            entry0Expired == IsExpired(e0, t)
            entry1Expired == IsExpired(e1, t)
        IN  IF entry0Expired /\ ~entry1Expired THEN {entries[1]}
            ELSE IF ~entry0Expired /\ entry1Expired THEN {entries[2]}
            ELSE IF entry0Expired /\ entry1Expired
            THEN IF e0.expireAt < e1.expireAt THEN {entries[1]} ELSE {entries[2]}
            ELSE IF e0.expireAt > 0 /\ e1.expireAt > 0
            THEN IF e0.expireAt < e1.expireAt THEN {entries[1]} ELSE {entries[2]}
            ELSE {entries[1], entries[2]}       \* rand.Intn(2)

\* A variant of the end of a round of evictIfNeeded that leaves the victim
\* and the counters as they are.
evictOneNothing(sh, hp, id) == [sh |-> sh, hp |-> hp]

\* Mark as evicted and reduce memory usage immediately.
evictOne(sh, hp, id) ==
    [sh |-> [addMemUsed(sh, -Size(hp[id])) EXCEPT !.numEvicted = @ + 1],
     hp |-> [hp EXCEPT ![id] = SetEvicted(@, TRUE)]]

RECURSIVE evictLoop(_, _, _, _)
evictLoop(sh, hp, requiredSpace, t) ==
    IF sh.memUsed + requiredSpace > sh.maxMemory /\ sh.m.numItems > 0
    THEN LET entries == randomEntries(sh.m, 2) IN
         IF Len(entries) = 0 THEN {[sh |-> sh, hp |-> hp]}
         ELSE UNION {
                LET o == evictOne(sh, hp, id) IN evictLoop(o.sh, o.hp, requiredSpace, t)
                : id \in victims(entries, hp, t)}
    ELSE {[sh |-> sh, hp |-> hp]}

\* A variant that never evicts.
evictIfNeededNever(sh, hp, requiredSpace, t) == {[sh |-> sh, hp |-> hp]}

evictIfNeeded(sh, hp, requiredSpace, t) ==
    IF sh.maxMemory <= 0 THEN {[sh |-> sh, hp |-> hp]}
    ELSE evictLoop(sh, hp, requiredSpace, t)

countOp(sh) == [sh EXCEPT !.numOps = @ + 1]

Store(sh, hp, t, key, value, opts) ==
    LET entry == [NewEntry(key, value) EXCEPT
                      !.expireAt = IF opts.TTL > 0 THEN t + opts.TTL ELSE 0,
                      !.flags = opts.Flags,
                      !.cas = opts.CAS]
    IN  { LET r == insert(o.sh.m, o.hp, entry)
              afterOld == IF r.found THEN addMemUsed(o.sh, -Size(r.old)) ELSE o.sh
          IN  [sh |-> [addMemUsed(afterOld, Size(entry)) EXCEPT !.m = r.m],
               hp |-> r.hp,
               ok |-> TRUE]
          : o \in evictIfNeeded(countOp(sh), hp, Size(entry), t) }

\* internal/cache/operations.go, the other version of the operations file:
\* its evictIfNeeded has no test of maxMemory, picks between two sampled
\* entries by their expiry only, and deletes the victim from the map.
victimsOperations(entries, hp) ==
    IF Len(entries) = 1 THEN {entries[1]}
    ELSE IF hp[entries[1]].expireAt > 0 /\ hp[entries[2]].expireAt > 0
    THEN IF hp[entries[1]].expireAt < hp[entries[2]].expireAt
         THEN {entries[1]} ELSE {entries[2]}
    ELSE {entries[1], entries[2]}       \* rand.Intn(2)

RECURSIVE evictIfNeededOperations(_, _, _)
evictIfNeededOperations(sh, hp, requiredSpace) ==
    IF sh.memUsed + requiredSpace > sh.maxMemory /\ sh.m.numItems > 0
    THEN LET entries == randomEntries(sh.m, 2) IN
         IF Len(entries) = 0 THEN {[sh |-> sh, hp |-> hp]}
         ELSE UNION {
                LET r == delete(sh.m, hp, hp[id].key, hashKey(hp[id].key))
                    evicted == IF r.entry # NIL
                               THEN [addMemUsed(sh, -Size(hp[r.entry])) EXCEPT
                                         !.m = r.m, !.numEvicted = @ + 1]
                               ELSE sh
                IN  evictIfNeededOperations(evicted, hp, requiredSpace)
                : id \in victimsOperations(entries, hp)}
    ELSE {[sh |-> sh, hp |-> hp]}

\* Store of internal/cache/operations.go.
StoreOperations(sh, hp, t, key, value, opts) ==
    LET entry == [NewEntry(key, value) EXCEPT
                      !.expireAt = IF opts.TTL > 0 THEN t + opts.TTL ELSE 0,
                      !.flags = opts.Flags,
                      !.cas = opts.CAS]
    IN  { LET r == insert(o.sh.m, o.hp, entry)
              afterOld == IF r.found THEN addMemUsed(o.sh, -Size(r.old)) ELSE o.sh
          IN  [sh |-> [addMemUsed(afterOld, Size(entry)) EXCEPT !.m = r.m],
               hp |-> r.hp,
               ok |-> TRUE]
          : o \in evictIfNeededOperations(countOp(sh), hp, Size(entry)) }

Delete(sh, hp, key) ==
    LET r == delete(sh.m, hp, key, hashKey(key)) IN
    IF r.entry = NIL
    THEN [sh |-> countOp(sh), hp |-> hp, ok |-> FALSE]
    ELSE [sh |-> [addMemUsed(countOp(sh), -Size(hp[r.entry])) EXCEPT !.m = r.m],
          hp |-> hp,
          ok |-> TRUE]

\* A variant that swaps whenever the key is in the map, whatever its cas.
CompareAndSwapAnyCas(sh, hp, t, key, value, cas, opts) ==
    LET existing == get(sh.m, hp, key) IN
    IF existing = NIL
    THEN {[sh |-> countOp(sh), hp |-> hp, ok |-> FALSE]}
    ELSE { [sh |-> addMemUsed(countOp(sh), Len(value) - Len(hp[existing].value)),
            hp |-> [hp EXCEPT ![existing] =
                       IncrementCAS([@ EXCEPT !.value = value,
                                              !.expireAt = expiryOf(opts, t),
                                              !.flags = opts.Flags])],
            ok |-> TRUE] }

CompareAndSwap(sh, hp, t, key, value, cas, opts) ==
    LET existing == get(sh.m, hp, key) IN
    IF existing = NIL \/ hp[existing].cas # cas
    THEN {[sh |-> countOp(sh), hp |-> hp, ok |-> FALSE]}
    ELSE
        LET newExpireAt == IF opts.TTL > 0 THEN t + opts.TTL ELSE 0
            newFlags == opts.Flags
            sizeDelta == Len(value) - Len(hp[existing].value)
        IN  { [sh |-> addMemUsed(o.sh, sizeDelta),
               hp |-> [o.hp EXCEPT ![existing] =
                          IncrementCAS([@ EXCEPT !.value = value,
                                                 !.expireAt = newExpireAt,
                                                 !.flags = newFlags])],
               ok |-> TRUE]
              : o \in evictIfNeeded(countOp(sh), hp, sizeDelta, t) }

Increment(sh, hp, t, key, delta) ==
    LET entry == get(sh.m, hp, key) IN
    IF entry = NIL
    THEN LET fresh == NewEntry(key, int64ToBytes(delta)) IN
         { LET r == insert(o.sh.m, o.hp, fresh) IN
           [sh |-> [addMemUsed(o.sh, Size(fresh)) EXCEPT !.m = r.m],
            hp |-> r.hp,
            val |-> delta,
            bytes |-> fresh.value]
           : o \in evictIfNeeded(countOp(sh), hp, Size(fresh), t) }
    ELSE LET currentVal == bytesToInt64(hp[entry].value)
             newVal == add64(currentVal, delta)
             oldSize == Size(hp[entry])
             updated == IncrementCAS([hp[entry] EXCEPT !.value = int64ToBytes(newVal)])
         IN  {[sh |-> addMemUsed(countOp(sh), Size(updated) - oldSize),
               hp |-> [hp EXCEPT ![entry] = updated],
               val |-> newVal,
               bytes |-> updated.value]}

\* The keys a sweep collects in toDelete: those of the entries, in bucket
\* order, whose pointer is in selected.
RECURSIVE collectKeys(_, _, _)
collectKeys(ids, hp, selected) ==
    IF ids = <<>> THEN <<>>
    ELSE (IF Head(ids) \in selected THEN <<hp[Head(ids)].key>> ELSE <<>>)
         \o collectKeys(Tail(ids), hp, selected)

\* for _, key := range toDelete { delete; addMemUsed; count }: the shard
\* afterwards and the number of entries removed.
RECURSIVE deleteKeys(_, _, _, _, _)
deleteKeys(sh, hp, keys, n, countExpired) ==
    IF keys = <<>> THEN [sh |-> sh, n |-> n]
    ELSE LET r == delete(sh.m, hp, Head(keys), hashKey(Head(keys))) IN
         IF r.entry = NIL THEN deleteKeys(sh, hp, Tail(keys), n, countExpired)
         ELSE deleteKeys(
                  [addMemUsed(sh, -Size(hp[r.entry])) EXCEPT
                       !.m = r.m,
                       !.numExpired = IF countExpired THEN @ + 1 ELSE @],
                  hp, Tail(keys), n + 1, countExpired)

\* A variant that removes every entry that has a TTL, elapsed or not.
SweepEveryTTL(sh, hp, t) ==
    LET withTTL == {id \in DOMAIN hp : hp[id].expireAt > 0}
        toDelete == collectKeys(iter(sh.m), hp, withTTL)
    IN  deleteKeys(sh, hp, toDelete, 0, TRUE)

\* The body of Sweep's loop for one shard.
Sweep(sh, hp, t) ==
    LET expiredNow == {id \in DOMAIN hp : IsExpired(hp[id], t)}
        toDelete == collectKeys(iter(sh.m), hp, expiredNow)
    IN  deleteKeys(sh, hp, toDelete, 0, TRUE)

\* The body of SweepEvicted's loop for one shard.
SweepEvicted(sh, hp) ==
    LET totalMemory == sh.memUsed
        ids == iter(sh.m)
        evictedIds == {i \in 1..Len(ids) : IsEvicted(hp[ids[i]])}
        RECURSIVE sumSizes(_)
        sumSizes(i) ==
            IF i > Len(ids) THEN 0
            ELSE (IF i \in evictedIds THEN Size(hp[ids[i]]) ELSE 0) + sumSizes(i + 1)
        evictedMemory == sumSizes(1)
        toDelete == collectKeys(ids, hp, {id \in DOMAIN hp : IsEvicted(hp[id])})
    IN  IF evictedMemory > goDiv(totalMemory, 10)
        THEN deleteKeys(sh, hp, toDelete, 0, FALSE)
        ELSE [sh |-> sh, n |-> 0]

\* The body of Clear's loop for one shard.
Clear(sh) == [sh EXCEPT !.m = NewMap(MinMapSize), !.memUsed = 0]

(***************************************************************************)
(* Clients.  A client is idle or inside one cache call.  Store, Delete,    *)
(* CompareAndSwap and Increment hold the exclusive lock of one shard from  *)
(* start to end and are one step each.  Load takes the shared lock for the *)
(* lookup only, then reads the entry's evicted bit and expiry through the  *)
(* pointer and calls Delete: four steps.  Sweep, SweepEvicted and Clear    *)
(* lock one shard after the other: one step per shard.                     *)
(***************************************************************************)
NoResult == [op |-> "none", key |-> <<>>, ok |-> FALSE, val |-> <<>>, num |-> word64(0)]

Result(op, key, ok, val, num) ==
    [op |-> op, key |-> key, ok |-> ok, val |-> val, num |-> num]

\* A client between calls: ret is what its last call returned, calls the
\* number of calls it has returned from.
IdleClient(ret, calls) ==
    [pc |-> "idle", key |-> <<>>, entry |-> NIL, why |-> "", idx |-> 0, acc |-> 0,
     ret |-> ret, calls |-> calls]

\* Client c after its call has returned ret.
Returned(c, ret) == IdleClient(ret, c.calls + 1)

\* The history of a key: present and value are the abstract map (the value
\* of the latest Store, CompareAndSwap or Increment, unless a Delete or Clear
\* came later), expireAt is the expiry that write asked for, deleted says
\* that a Delete or Clear was called on the key, written collects the values.
NeverWritten ==
    [present |-> FALSE, value |-> <<>>, expireAt |-> 0, deleted |-> FALSE, written |-> {}]

Written(h, value, expireAt) ==
    [h EXCEPT !.present = TRUE, !.value = value, !.expireAt = expireAt,
              !.written = @ \cup {value}]

Deleted(h) == [h EXCEPT !.present = FALSE, !.value = <<>>, !.expireAt = 0, !.deleted = TRUE]

\* The integer a value stands for and the value an integer is written as,
\* in closed form: eight bytes, most significant first, two per 16-bit limb;
\* a value of another length stands for 0.
fromBigEndian(b) ==
    IF Len(b) # 2 * Limbs THEN word64(0)
    ELSE [i \in 1..Limbs |-> 256 * b[2 * (Limbs - i) + 1] + b[2 * (Limbs - i) + 2]]

bigEndian(n) ==
    [j \in 1..(2 * Limbs) |->
        LET limb == n[Limbs - ((j - 1) \div 2)] IN
        IF j % 2 = 1 THEN limb \div 256 ELSE limb % 256]

\* The history of a key after an Increment by delta: the counter of an
\* absent key starts from 0.
Counted(h, delta) ==
    Written(h, bigEndian(add64(IF h.present THEN fromBigEndian(h.value) ELSE word64(0),
                               delta)),
            h.expireAt)

\* Go's garbage collector: the objects still referenced by a bucket or a client.
Collect(hp, shs, ps) ==
    LET allInMaps == UNION {{shs[i].m.buckets[j].entry : j \in 1..Len(shs[i].m.buckets)}
                               : i \in 1..Len(shs)}
        held == {ps[q].entry : q \in DOMAIN ps}
    IN  [id \in (DOMAIN hp) \cap (allInMaps \cup held) |-> hp[id]]

\* What a call that ran on shard s and ended leaves behind.
Finish(p, s, sh, hp, ret) ==
    /\ procs[p].pc = "idle"
    /\ shards' = [shards EXCEPT ![s] = sh]
    /\ procs' = [procs EXCEPT ![p] = Returned(@, ret)]
    /\ heap' = Collect(hp, shards', procs')
    /\ steps' = steps + 1
    /\ UNCHANGED <<server, conns, maxMemory, now>>

DoStore(p, key, value, opts) ==
    LET s == getShard(Len(shards), key) IN
    \E o \in Store(shards[s], heap, now, key, value, opts) :
        /\ Finish(p, s, o.sh, o.hp, Result("Store", key, TRUE, value, word64(0)))
        /\ kv' = [kv EXCEPT ![key] = Written(@, value, expiryOf(opts, now))]

\* Store with the loop of evictIfNeeded in single rounds.  StoreLock: the
\* client has built the entry, holds the exclusive lock of the shard of key
\* (idx) and has counted the operation; acc is num_evicted of the shard at
\* that moment.
StoreLock(p, key, value, opts) ==
    LET s == getShard(Len(shards), key) IN
    /\ procs[p].pc = "idle"
    /\ procs' = [procs EXCEPT ![p] =
                     [pc |-> "evictIfNeeded", key |-> key, entry |-> NIL, why |-> "",
                      idx |-> s, acc |-> shards[s].numEvicted,
                      ret |-> @.ret, calls |-> @.calls, opts |-> opts,
                      built |-> [NewEntry(key, value) EXCEPT
                                     !.expireAt = expiryOf(opts, now),
                                     !.flags = opts.Flags,
                                     !.cas = opts.CAS]]]
    /\ shards' = [shards EXCEPT ![s] = countOp(@)]
    /\ steps' = steps + 1
    /\ UNCHANGED <<server, conns, maxMemory, heap, now, kv>>

\* The test of the loop of evictIfNeeded on shard sh for requiredSpace, with
\* the test of max_memory before it and the break on an empty sample.
evictContinues(sh, requiredSpace) ==
    /\ sh.maxMemory > 0
    /\ sh.memUsed + requiredSpace > sh.maxMemory /\ sh.m.numItems > 0
    /\ Len(randomEntries(sh.m, 2)) # 0

\* One round of the loop of evictIfNeeded.
EvictRound(p) ==
    LET c == procs[p] IN
    /\ c.pc = "evictIfNeeded"
    /\ evictContinues(shards[c.idx], Size(c.built))
    /\ \E id \in victims(randomEntries(shards[c.idx].m, 2), heap, now) :
           /\ shards' = [shards EXCEPT ![c.idx] = evictOne(@, heap, id).sh]
           /\ heap' = evictOne(shards[c.idx], heap, id).hp
    /\ UNCHANGED <<server, conns, maxMemory, now, procs, kv, steps>>

\* The loop of evictIfNeeded has ended: the rest of Store, and the unlock.
StoreUnlock(p) ==
    LET c == procs[p]
        r == insert(shards[c.idx].m, heap, c.built)
        afterOld == IF r.found THEN addMemUsed(shards[c.idx], -Size(r.old))
                    ELSE shards[c.idx]
    IN  /\ c.pc = "evictIfNeeded"
        /\ ~evictContinues(shards[c.idx], Size(c.built))
        /\ shards' = [shards EXCEPT
                          ![c.idx] = [addMemUsed(afterOld, Size(c.built)) EXCEPT !.m = r.m]]
        /\ procs' = [procs EXCEPT ![p] =
                         Returned(@, Result("Store", c.key, TRUE, c.built.value, word64(0)))]
        /\ heap' = Collect(r.hp, shards', procs')
        /\ kv' = [kv EXCEPT ![c.key] = Written(@, c.built.value, c.built.expireAt)]
        /\ UNCHANGED <<server, conns, maxMemory, now, steps>>

\* A call of the Store of internal/cache/operations.go.
DoStoreOperations(p, key, value, opts) ==
    LET s == getShard(Len(shards), key) IN
    \E o \in StoreOperations(shards[s], heap, now, key, value, opts) :
        /\ Finish(p, s, o.sh, o.hp, Result("Store", key, TRUE, value, word64(0)))
        /\ kv' = [kv EXCEPT ![key] = Written(@, value, expiryOf(opts, now))]

DoDelete(p, key) ==
    LET s == getShard(Len(shards), key)
        o == Delete(shards[s], heap, key)
    IN  /\ Finish(p, s, o.sh, o.hp, Result("Delete", key, o.ok, <<>>, word64(0)))
        /\ kv' = [kv EXCEPT ![key] = Deleted(@)]

DoCompareAndSwap(p, key, value, cas, opts) ==
    LET s == getShard(Len(shards), key) IN
    \E o \in CompareAndSwap(shards[s], heap, now, key, value, cas, opts) :
        /\ Finish(p, s, o.sh, o.hp, Result("CompareAndSwap", key, o.ok, value, cas))
        /\ kv' = IF o.ok
                 THEN [kv EXCEPT ![key] = Written(@, value, expiryOf(opts, now))]
                 ELSE kv

DoIncrement(p, key, delta) ==
    LET s == getShard(Len(shards), key) IN
    \E o \in Increment(shards[s], heap, now, key, delta) :
        /\ Finish(p, s, o.sh, o.hp, Result("Increment", key, TRUE, delta, o.val))
        /\ kv' = [kv EXCEPT ![key] = Counted(@, delta)]

\* Load, first step: shard.mu.RLock(); entry := shard.m.get(key); RUnlock().
LoadGet(p, key) ==
    LET s == getShard(Len(shards), key) IN
    /\ procs[p].pc = "idle"
    /\ procs' = [procs EXCEPT ![p] =
                    [@ EXCEPT !.pc = "load_got", !.key = key,
                              !.entry = get(shards[s].m, heap, key)]]
    /\ steps' = steps + 1
    /\ UNCHANGED <<server, conns, maxMemory, shards, heap, now, kv>>

\* A variant of Load's second step that does not look at the evicted bit.
LoadCheckEvictedBlind(p) ==
    LET c == procs[p]
        s == getShard(Len(shards), c.key)
    IN  /\ c.pc = "load_got"
        /\ IF c.entry = NIL
           THEN /\ shards' = [shards EXCEPT ![s] =
                                 [countOp(@) EXCEPT !.numMisses = @ + 1]]
                /\ procs' = [procs EXCEPT ![p] =
                                Returned(c, Result("Load", c.key, FALSE, <<>>, word64(0)))]
           ELSE /\ shards' = [shards EXCEPT ![s] = countOp(@)]
                /\ procs' = [procs EXCEPT ![p] = [c EXCEPT !.pc = "load_live"]]
        /\ heap' = Collect(heap, shards', procs')
        /\ UNCHANGED <<server, conns, maxMemory, now, kv, steps>>

\* Load, second step: count the op; a nil entry is a miss; read the evicted bit.
LoadCheckEvicted(p) ==
    LET c == procs[p]
        s == getShard(Len(shards), c.key)
    IN  /\ c.pc = "load_got"
        /\ IF c.entry = NIL
           THEN /\ shards' = [shards EXCEPT ![s] =
                                 [countOp(@) EXCEPT !.numMisses = @ + 1]]
                /\ procs' = [procs EXCEPT ![p] =
                                Returned(c, Result("Load", c.key, FALSE, <<>>, word64(0)))]
           ELSE /\ shards' = [shards EXCEPT ![s] = countOp(@)]
                /\ procs' = [procs EXCEPT ![p] =
                                IF IsEvicted(heap[c.entry])
                                THEN [c EXCEPT !.pc = "load_delete", !.why = "evicted"]
                                ELSE [c EXCEPT !.pc = "load_live"]]
        /\ heap' = Collect(heap, shards', procs')
        /\ UNCHANGED <<server, conns, maxMemory, now, kv, steps>>

\* Load, third step: entry.IsExpired(); a live entry is a hit.
LoadCheckExpired(p) ==
    LET c == procs[p]
        s == getShard(Len(shards), c.key)
    IN  /\ c.pc = "load_live"
        /\ IF IsExpired(heap[c.entry], now)
           THEN /\ procs' = [procs EXCEPT ![p] =
                                [c EXCEPT !.pc = "load_delete", !.why = "expired"]]
                /\ shards' = shards
           ELSE /\ shards' = [shards EXCEPT ![s].numHits = @ + 1]
                /\ procs' = [procs EXCEPT ![p] =
                                Returned(c, Result("Load", c.key, TRUE,
                                                  heap[c.entry].value,
                                                  heap[c.entry].cas))]
        /\ heap' = Collect(heap, shards', procs')
        /\ UNCHANGED <<server, conns, maxMemory, now, kv, steps>>

\* Load, last step: c.Delete(key), then the counters of the miss.
LoadDelete(p) ==
    LET c == procs[p]
        s == getShard(Len(shards), c.key)
        o == Delete(shards[s], heap, c.key)
        counted == [o.sh EXCEPT
                        !.numMisses = @ + 1,
                        !.numExpired = IF c.why = "expired" THEN @ + 1 ELSE @]
    IN  /\ c.pc = "load_delete"
        /\ shards' = [shards EXCEPT ![s] = counted]
        /\ procs' = [procs EXCEPT ![p] =
                        Returned(c, Result("Load", c.key, FALSE, <<>>, word64(0)))]
        /\ heap' = Collect(o.hp, shards', procs')
        /\ UNCHANGED <<server, conns, maxMemory, now, kv, steps>>

\* Sweep, SweepEvicted and Clear start before their first shard.
BeginAll(p, op) ==
    /\ procs[p].pc = "idle"
    /\ procs' = [procs EXCEPT ![p] = [@ EXCEPT !.pc = op, !.idx = 1, !.acc = 0]]
    /\ steps' = steps + 1
    /\ UNCHANGED <<server, conns, maxMemory, shards, heap, now, kv>>

\* The client after the loop body ran on shard c.idx and removed n entries.
nextShard(c, op, n) ==
    IF c.idx = Len(shards)
    THEN Returned(c, Result(op, <<>>, TRUE, <<>>, word64(c.acc + n)))
    ELSE [c EXCEPT !.idx = @ + 1, !.acc = @ + n]

SweepShard(p) ==
    LET c == procs[p]
        o == Sweep(shards[c.idx], heap, now)
    IN  /\ c.pc = "Sweep"
        /\ shards' = [shards EXCEPT ![c.idx] = o.sh]
        /\ procs' = [procs EXCEPT ![p] = nextShard(c, "Sweep", o.n)]
        /\ heap' = Collect(heap, shards', procs')
        /\ UNCHANGED <<server, conns, maxMemory, now, kv, steps>>

SweepEvictedShard(p) ==
    LET c == procs[p]
        o == SweepEvicted(shards[c.idx], heap)
    IN  /\ c.pc = "SweepEvicted"
        /\ shards' = [shards EXCEPT ![c.idx] = o.sh]
        /\ procs' = [procs EXCEPT ![p] = nextShard(c, "SweepEvicted", o.n)]
        /\ heap' = Collect(heap, shards', procs')
        /\ UNCHANGED <<server, conns, maxMemory, now, kv, steps>>

ClearShard(p) ==
    LET c == procs[p] IN
    /\ c.pc = "Clear"
    /\ shards' = [shards EXCEPT ![c.idx] = Clear(@)]
    /\ procs' = [procs EXCEPT ![p] = nextShard(c, "Clear", 0)]
    /\ heap' = Collect(heap, shards', procs')
    /\ kv' = [k \in DOMAIN kv |->
                 IF getShard(Len(shards), k) = c.idx THEN Deleted(kv[k]) ELSE kv[k]]
    /\ UNCHANGED <<server, conns, maxMemory, now, steps>>

\* The entries Iterate passes to its callback on one shard, in the order of
\* iter: every entry of an occupied bucket that is not expired.
iteratePassed(sh, hp, t) == SelectSeq(iter(sh.m), LAMBDA e : ~IsExpired(hp[e], t))

\* Iterate with a callback that appends the key and continues (the callback
\* of KEYS), before its first shard.
IterateBegin(p) ==
    /\ procs[p].pc = "idle"
    /\ procs' = [procs EXCEPT ![p] =
                    [pc |-> "Iterate", key |-> <<>>, entry |-> NIL, why |-> "",
                     idx |-> 1, acc |-> 0, ret |-> @.ret, calls |-> @.calls,
                     keys |-> <<>>]]
    /\ steps' = steps + 1
    /\ UNCHANGED <<server, conns, maxMemory, shards, heap, now, kv>>

\* Iterate on shard c.idx: RLock, iter, RUnlock.
IterateShard(p) ==
    LET c == procs[p]
        passed == iteratePassed(shards[c.idx], heap, now)
        keys == c.keys \o [i \in 1..Len(passed) |-> heap[passed[i]].key]
    IN  /\ c.pc = "Iterate"
        /\ procs' = [procs EXCEPT ![p] =
                        IF c.idx = Len(shards)
                        THEN Returned(c, [op |-> "Iterate", key |-> <<>>, ok |-> TRUE,
                                          val |-> <<>>, num |-> word64(Len(keys)),
                                          keys |-> keys])
                        ELSE [c EXCEPT !.idx = @ + 1, !.keys = keys]]
        /\ UNCHANGED <<server, conns, maxMemory, shards, heap, now, kv, steps>>

\* NumItems on shard c.idx: RLock; total += shard.m.numItems; RUnlock.
NumItemsShard(p) ==
    LET c == procs[p] IN
    /\ c.pc = "NumItems"
    /\ procs' = [procs EXCEPT ![p] = nextShard(c, "NumItems", shards[c.idx].m.numItems)]
    /\ UNCHANGED <<server, conns, maxMemory, shards, heap, now, kv, steps>>

\* Time passes.
Tick ==
    /\ now' = now + 1
    /\ UNCHANGED <<server, conns, maxMemory, shards, heap, procs, kv, steps>>

(***************************************************************************)
(* The server (internal/server/server.go) and the protocol layer           *)
(* (internal/protocol).  A byte is a number 0..255 and a stream a sequence *)
(* of bytes; words of the protocols are written out in ASCII.              *)
(***************************************************************************)
Config(auth, redis, http, memcache, postgres) ==
    [Auth |-> auth, Redis |-> redis, HTTP |-> http, Memcache |-> memcache,
     Postgres |-> postgres]

\* The cache used as a library: no server, no connection.
NoServer == Config(<<>>, FALSE, FALSE, FALSE, FALSE)

min(a, b) == IF a < b THEN a ELSE b

\* The first n bytes of s, and the rest.
Take(s, n) == SubSeq(s, 1, min(n, Len(s)))

Drop(s, n) == SubSeq(s, min(n, Len(s)) + 1, Len(s))

\* bytes.HasPrefix
HasPrefix(s, prefix) == Len(s) >= Len(prefix) /\ SubSeq(s, 1, Len(prefix)) = prefix

\* The first bytes of a RESP message: * $ + - :
respMarkers == { 42, 36, 43, 45, 58 }

\* "GET ", "POST ", "PUT ", "DELETE ", "HEAD ", "OPTIONS ", "PATCH "
httpMethods ==
    { <<71, 69, 84, 32>>, <<80, 79, 83, 84, 32>>, <<80, 85, 84, 32>>,
      <<68, 69, 76, 69, 84, 69, 32>>, <<72, 69, 65, 68, 32>>,
      <<79, 80, 84, 73, 79, 78, 83, 32>>, <<80, 65, 84, 67, 72, 32>> }

\* "get ", "set ", "add ", "replace ", "delete ", "incr ", "decr ", "stats",
\* "flush", "version"
memcacheCommands ==
    { <<103, 101, 116, 32>>, <<115, 101, 116, 32>>, <<97, 100, 100, 32>>,
      <<114, 101, 112, 108, 97, 99, 101, 32>>, <<100, 101, 108, 101, 116, 101, 32>>,
      <<105, 110, 99, 114, 32>>, <<100, 101, 99, 114, 32>>,
      <<115, 116, 97, 116, 115>>, <<102, 108, 117, 115, 104>>,
      <<118, 101, 114, 115, 105, 111, 110>> }

\* A mutant of Detect: the Postgres test comes first.
DetectPostgresFirst(peek) ==
    IF Len(peek) >= 8 /\ peek[5] = 0 /\ peek[6] = 3 /\ peek[7] = 0 /\ peek[8] = 0
    THEN "TypePostgres"
    ELSE IF Len(peek) = 0 THEN "TypeRedis"
    ELSE IF peek[1] \in respMarkers THEN "TypeRedis"
    ELSE IF \E w \in httpMethods : HasPrefix(peek, w) THEN "TypeHTTP"
    ELSE IF \E w \in memcacheCommands : HasPrefix(peek, w) THEN "TypeMemcache"
    ELSE "TypeRedis"

\* Detector.Detect, after the Peek: the type of the peeked bytes.
Detect(peek) ==
    IF Len(peek) = 0 THEN "TypeRedis"
    ELSE IF peek[1] \in respMarkers THEN "TypeRedis"
    ELSE IF \E w \in httpMethods : HasPrefix(peek, w) THEN "TypeHTTP"
    ELSE IF \E w \in memcacheCommands : HasPrefix(peek, w) THEN "TypeMemcache"
    ELSE IF Len(peek) >= 8 /\ peek[5] = 0 /\ peek[6] = 3 /\ peek[7] = 0 /\ peek[8] = 0
    THEN "TypePostgres"
    ELSE "TypeRedis"

\* A connection the server has accepted.  todo are the bytes its client
\* will still send, sock the bytes that have arrived and that the server has
\* not read from the socket, fin says how the client ended the stream
\* ("open": not yet).  rbuf is what the Detector's bufio.Reader holds unread
\* and rerr its pending error, peeked is Detector.peeked, protoType what
\* Detect returned, pc the code that runs on the connection, hbuf what the handler's bufio.Reader holds unread.
\* authenticated is the handler's variable of that name, out the replies
\* written to the client.  History: sent are the bytes that have arrived,
\* got the bytes the handler has taken from its reader, ops the cache calls
\* the handler has made.  wbuf are the replies in the handler's
\* bufio.Writer that no Flush has sent yet, writing the messages that a
\* handler without a writer is sending, one Write after the other.  stalled
\* says that the client does not read and its window is full: a Write on
\* the socket blocks.  holds is the shard whose read lock the handler holds
\* (0: none); idx, table and count are the shard, the key prefix and the
\* rows found of a SELECT that scans the cache.  args are the arguments of
\* the SET whose Load has returned and whose Store is still to come.
Accepted(stream) ==
    [todo |-> stream, sock |-> <<>>, fin |-> "open",
     rbuf |-> <<>>, rerr |-> "", peeked |-> <<>>, protoType |-> "", pc |-> "Detect",
     hbuf |-> <<>>, authenticated |-> FALSE, out |-> <<>>,
     sent |-> <<>>, got |-> <<>>, ops |-> <<>>,
     wbuf |-> <<>>, writing |-> <<>>, stalled |-> FALSE,
     holds |-> 0, idx |-> 0, table |-> <<>>, count |-> 0, args |-> <<>>]

\* The client's bytes arrive, n at a time.
ClientSend(c, n) ==
    /\ conns[c].fin = "open"
    /\ n \in 1..Len(conns[c].todo)
    /\ conns' = [conns EXCEPT ![c] =
                    [@ EXCEPT !.todo = Drop(@, n),
                              !.sock = @ \o Take(conns[c].todo, n),
                              !.sent = @ \o Take(conns[c].todo, n)]]
    /\ UNCHANGED <<shards, maxMemory, heap, now, procs, kv, steps, server>>

\* The client closes the connection ("EOF": the server reads what has
\* arrived and then the end of the stream) or the connection breaks
\* ("reset": what the server has not read is lost, a read fails).
ClientClose(c, how) ==
    /\ conns[c].fin = "open"
    /\ conns' = [conns EXCEPT ![c] =
                    [@ EXCEPT !.fin = how,
                              !.sock = IF how = "reset" THEN <<>> ELSE @]]
    /\ UNCHANGED <<shards, maxMemory, heap, now, procs, kv, steps, server>>

\* net.Conn.Read into n free bytes: the bytes read, what stays in the
\* socket and the error.  It blocks while nothing has arrived on an open
\* connection.
connReadBlocks(c) == c.sock = <<>> /\ c.fin = "open"

connRead(c, n) ==
    IF c.sock # <<>>
    THEN [data |-> Take(c.sock, n), sock |-> Drop(c.sock, n), err |-> ""]
    ELSE [data |-> <<>>, sock |-> <<>>, err |-> c.fin]

\* One round of the loop of bufio.Reader.Peek(8) in Detect: fill reads once
\* from the connection into the free part of the buffer.
PeekFill(c) ==
    LET cn == conns[c]
        r == connRead(cn, BufSize - Len(cn.rbuf))
    IN  /\ cn.pc = "Detect"
        /\ Len(cn.rbuf) < PeekSize /\ cn.rerr = ""
        /\ ~connReadBlocks(cn)
        /\ conns' = [conns EXCEPT ![c] =
                        [@ EXCEPT !.rbuf = @ \o r.data, !.sock = r.sock, !.rerr = r.err]]
        /\ UNCHANGED <<shards, maxMemory, heap, now, procs, kv, steps, server>>

\* The handler that handleConnection starts for a type; "Closed" when the
\* protocol is not enabled (the handler is nil) and the connection is closed.
handlerOf(cfg, protoType) ==
    CASE protoType = "TypeRedis" -> IF cfg.Redis THEN "Redis" ELSE "Closed"
      [] protoType = "TypeHTTP" -> IF cfg.HTTP THEN "HTTP" ELSE "Closed"
      [] protoType = "TypeMemcache" -> IF cfg.Memcache THEN "Memcache" ELSE "Closed"
      [] protoType = "TypePostgres" -> IF cfg.Postgres THEN "Postgres" ELSE "Closed"
      [] OTHER -> IF cfg.Redis THEN "Redis" ELSE "Closed"

\* handleConnection once Peek has returned: Detect keeps the peeked bytes
\* and gives the type, or fails on an error other than EOF, and the
\* connection is handed to the handler of the type.  Peek takes its error
\* out of the reader.  The Redis handler starts with authenticated :=
\* !h.authRequired.
handleConnection(c) ==
    LET cn == conns[c]
        peek == Take(cn.rbuf, PeekSize)
        failed == Len(peek) < PeekSize /\ cn.rerr # "EOF"
    IN  /\ cn.pc = "Detect"
        /\ Len(cn.rbuf) >= PeekSize \/ cn.rerr # ""
        /\ conns' = [conns EXCEPT ![c] =
                        [@ EXCEPT !.peeked = IF failed THEN <<>> ELSE peek,
                                  !.protoType = IF failed THEN "TypeUnknown"
                                                ELSE Detect(peek),
                                  !.rerr = "",
                                  !.pc = IF failed THEN "Closed"
                                         ELSE handlerOf(server, Detect(peek)),
                                  !.authenticated =
                                      ~failed /\ handlerOf(server, Detect(peek)) = "Redis"
                                              /\ server.Auth = <<>>]]
        /\ UNCHANGED <<shards, maxMemory, heap, now, procs, kv, steps, server>>

\* A mutant of detectorConnRead: the read goes to the connection itself.
detectorConnReadRaw(c, n) ==
    LET r == connRead(c, n)
    IN  [data |-> r.data, rbuf |-> c.rbuf, sock |-> r.sock, err |-> r.err]

\* detectorConn.Read into n free bytes, which is bufio.Reader.Read of the
\* Detector's reader: from the buffer when it holds bytes; else one read of
\* the connection, into the caller's bytes when these are as many as the
\* buffer and through the buffer when they are fewer.
detectorConnRead(c, n) ==
    IF c.rbuf # <<>>
    THEN [data |-> Take(c.rbuf, n), rbuf |-> Drop(c.rbuf, n), sock |-> c.sock, err |-> ""]
    ELSE IF n >= BufSize
    THEN LET r == connRead(c, n)
         IN  [data |-> r.data, rbuf |-> <<>>, sock |-> r.sock, err |-> r.err]
    ELSE LET r == connRead(c, BufSize)
         IN  [data |-> Take(r.data, n), rbuf |-> Drop(r.data, n), sock |-> r.sock,
              err |-> r.err]

\* The handler's bufio.Reader fills: one Read of the connection it was
\* given, into the free part of its buffer.
HandlerFill(c) ==
    LET cn == conns[c]
        r == detectorConnRead(cn, BufSize - Len(cn.hbuf))
    IN  /\ cn.pc \in Handlers
        /\ Len(cn.hbuf) < BufSize
        /\ cn.rbuf # <<>> \/ ~connReadBlocks(cn)
        /\ r.err = ""
        /\ conns' = [conns EXCEPT ![c] =
                        [@ EXCEPT !.hbuf = @ \o r.data, !.rbuf = r.rbuf, !.sock = r.sock]]
        /\ UNCHANGED <<shards, maxMemory, heap, now, procs, kv, steps, server>>

\* The handler takes the next n bytes from its reader.
HandlerTake(c, n) ==
    /\ conns[c].pc \in Handlers
    /\ n \in 1..Len(conns[c].hbuf)
    /\ conns' = [conns EXCEPT ![c] =
                    [@ EXCEPT !.hbuf = Drop(@, n),
                              !.got = @ \o Take(conns[c].hbuf, n)]]
    /\ UNCHANGED <<shards, maxMemory, heap, now, procs, kv, steps, server>>

\* The handler's read finds the end of the stream or fails, and the
\* handler returns: the connection is closed.
HandlerEnd(c) ==
    LET cn == conns[c]
        r == detectorConnRead(cn, BufSize - Len(cn.hbuf))
    IN  /\ cn.pc \in Handlers
        /\ cn.hbuf = <<>>
        /\ cn.rbuf = <<>> /\ ~connReadBlocks(cn)
        /\ r.err # ""
        /\ conns' = [conns EXCEPT ![c] = [@ EXCEPT !.pc = "Closed"]]
        /\ UNCHANGED <<shards, maxMemory, heap, now, procs, kv, steps, server>>

(***************************************************************************)
(* Text: the functions of strings, strconv and bufio that the handlers     *)
(* parse their requests with.                                              *)
(***************************************************************************)
\* unicode.IsSpace on ASCII: \t \n \v \f \r and the space.
isSpace(b) == b \in {9, 10, 11, 12, 13, 32}

RECURSIVE TrimLeft(_)
TrimLeft(s) == IF s # <<>> /\ isSpace(s[1]) THEN TrimLeft(Tail(s)) ELSE s

RECURSIVE TrimRight(_)
TrimRight(s) ==
    IF s # <<>> /\ isSpace(s[Len(s)]) THEN TrimRight(SubSeq(s, 1, Len(s) - 1)) ELSE s

\* strings.TrimSpace
TrimSpace(s) == TrimRight(TrimLeft(s))

\* The length of the first word of t, which starts with no space.
wordLen(t) ==
    IF \E i \in 1..Len(t) : isSpace(t[i])
    THEN (CHOOSE i \in 1..Len(t) : isSpace(t[i]) /\ \A j \in 1..(i - 1) : ~isSpace(t[j])) - 1
    ELSE Len(t)

\* strings.Fields
RECURSIVE Fields(_)
Fields(s) ==
    LET t == TrimLeft(s) IN
    IF t = <<>> THEN <<>>
    ELSE <<Take(t, wordLen(t))>> \o Fields(Drop(t, wordLen(t)))

\* strings.ToUpper and strings.ToLower on ASCII
ToUpper(s) == [i \in 1..Len(s) |-> IF s[i] \in 97..122 THEN s[i] - 32 ELSE s[i]]

ToLower(s) == [i \in 1..Len(s) |-> IF s[i] \in 65..90 THEN s[i] + 32 ELSE s[i]]

RECURSIVE decimal(_)
decimal(s) ==
    IF s = <<>> THEN 0 ELSE decimal(SubSeq(s, 1, Len(s) - 1)) * 10 + (s[Len(s)] - 48)

\* strconv.Atoi (and ParseInt in base 10): an optional sign and digits.
Atoi(s) ==
    LET digits == IF s # <<>> /\ s[1] \in {43, 45} THEN Tail(s) ELSE s IN
    IF digits = <<>> \/ \E i \in 1..Len(digits) : digits[i] \notin 48..57
    THEN [ok |-> FALSE, n |-> 0]
    ELSE [ok |-> TRUE, n |-> IF s[1] = 45 THEN -decimal(digits) ELSE decimal(digits)]

\* bufio.Reader.ReadString('\n') on the unread bytes s of a connection: the
\* line with its \n and its length n; "block" while the line is not
\* complete and the stream is open, else the end of the stream or its error.
ReadString(s, fin) ==
    IF \E i \in 1..Len(s) : s[i] = 10
    THEN LET n == CHOOSE i \in 1..Len(s) : s[i] = 10 /\ \A j \in 1..(i - 1) : s[j] # 10
         IN  [st |-> "ok", line |-> Take(s, n), n |-> n]
    ELSE [st |-> IF fin = "open" THEN "block" ELSE fin, line |-> s, n |-> Len(s)]

(***************************************************************************)
(* The handlers.  A handler reads with its own bufio.Reader from the       *)
(* connection Detector.Conn() gave it: the bytes it parses are those not   *)
(* yet taken, wherever they are held.  One round of a handler's loop is    *)
(* one step; it gives the number n of bytes taken, the replies flushed to  *)
(* the client, where the handler goes, its authenticated variable, the     *)
(* cache and the cache calls made.  A round whose read has to wait for     *)
(* bytes gives nothing.  A panic of a handler ends the process.            *)
(***************************************************************************)
unread(cn) == cn.hbuf \o cn.rbuf \o cn.sock

\* The connection after its handler has taken n bytes.
consume(cn, n) ==
    LET fromH == min(n, Len(cn.hbuf))
        fromR == min(n - fromH, Len(cn.rbuf))
    IN  [cn EXCEPT !.got = @ \o Take(unread(cn), n),
                   !.hbuf = Drop(@, fromH),
                   !.rbuf = Drop(@, fromR),
                   !.sock = Drop(@, n - fromH - fromR)]

Reply(kind, msg, data, num) == [kind |-> kind, msg |-> msg, data |-> data, num |-> num]

\* RedisHandler.writeError, writeSimpleString, writeBulkString, writeNil
\* and writeInteger
writeError(msg) == Reply("error", msg, <<>>, word64(0))

writeSimpleString(msg) == Reply("simple", msg, <<>>, word64(0))

writeBulkString(data) == Reply("bulk", "", data, word64(0))

writeNil == Reply("nil", "", <<>>, word64(0))

writeInteger(num) == Reply("integer", "", <<>>, num)

\* Cache.Load with all its steps in one.
Load(sh, hp, t, key) ==
    LET entry == get(sh.m, hp, key)
        counted == countOp(sh)
    IN  IF entry = NIL
        THEN [sh |-> [counted EXCEPT !.numMisses = @ + 1], hp |-> hp,
              entry |-> NIL, ok |-> FALSE]
        ELSE IF IsEvicted(hp[entry])
        THEN LET o == Delete(counted, hp, key) IN
             [sh |-> [o.sh EXCEPT !.numMisses = @ + 1], hp |-> o.hp,
              entry |-> NIL, ok |-> FALSE]
        ELSE IF IsExpired(hp[entry], t)
        THEN LET o == Delete(counted, hp, key) IN
             [sh |-> [o.sh EXCEPT !.numMisses = @ + 1, !.numExpired = @ + 1],
              hp |-> o.hp, entry |-> NIL, ok |-> FALSE]
        ELSE [sh |-> [counted EXCEPT !.numHits = @ + 1], hp |-> hp,
              entry |-> entry, ok |-> TRUE]

\* The cache calls of a handler: the cache afterwards, with what the call
\* returned.
Called(shs, hp, s, o) == [shards |-> [shs EXCEPT ![s] = o.sh], heap |-> o.hp, ret |-> o]

cacheLoad(shs, hp, t, key) ==
    LET s == getShard(Len(shs), key) IN Called(shs, hp, s, Load(shs[s], hp, t, key))

cacheStore(shs, hp, t, key, value, opts) ==
    LET s == getShard(Len(shs), key) IN
    { Called(shs, hp, s, o) : o \in Store(shs[s], hp, t, key, value, opts) }

cacheDelete(shs, hp, key) ==
    LET s == getShard(Len(shs), key) IN Called(shs, hp, s, Delete(shs[s], hp, key))

cacheIncrement(shs, hp, t, key, delta) ==
    LET s == getShard(Len(shs), key) IN
    { Called(shs, hp, s, o) : o \in Increment(shs[s], hp, t, key, delta) }

cacheClear(shs, hp) == [shards |-> [s \in DOMAIN shs |-> Clear(shs[s])], heap |-> hp]

\* A cache call as the history of a connection records it.
Op(cn, op, key) == [op |-> op, key |-> key, authenticated |-> cn.authenticated]

\* What a round gives.
Round(n, out, pc, authenticated, cache, ops) ==
    [n |-> n, out |-> out, pc |-> pc, authenticated |-> authenticated,
     shards |-> cache.shards, heap |-> cache.heap, ops |-> ops]

\* RedisHandler.readArray, the loop over the count arguments: each is a
\* line $size and size+2 bytes.  make([]byte, size+2) and buf[:size] panic
\* on a negative size.
RECURSIVE readArgs(_, _, _, _, _)
readArgs(s, fin, count, args, n) ==
    IF count = 0 THEN [st |-> "ok", cmd |-> args, n |-> n, msg |-> ""]
    ELSE LET r == ReadString(s, fin)
             line == TrimSpace(r.line)
             size == Atoi(Tail(line))
             rest == Drop(s, r.n)
         IN  IF r.st # "ok" THEN [st |-> r.st, cmd |-> <<>>, n |-> n + r.n, msg |-> r.st]
             ELSE IF Len(line) = 0 \/ line[1] # 36
             THEN [st |-> "err", cmd |-> <<>>, n |-> n + r.n, msg |-> "expected bulk string"]
             ELSE IF ~size.ok
             THEN [st |-> "err", cmd |-> <<>>, n |-> n + r.n,
                   msg |-> "strconv.Atoi: invalid syntax"]
             ELSE IF size.n < 0
             THEN [st |-> "panic", cmd |-> <<>>, n |-> n + r.n, msg |-> "makeslice"]
             ELSE IF Len(rest) < size.n + 2
             THEN [st |-> IF fin = "open" THEN "block"
                          ELSE IF fin = "EOF" /\ rest = <<>> THEN "EOF"
                          ELSE "err",
                   cmd |-> <<>>, n |-> n + r.n + Len(rest),
                   msg |-> IF fin = "EOF" THEN "unexpected EOF" ELSE fin]
             ELSE readArgs(Drop(rest, size.n + 2), fin, count - 1,
                           Append(args, Take(rest, size.n)), n + r.n + size.n + 2)

\* RedisHandler.readArray: line is "*count"; make([]string, 0, count)
\* panics on a negative count.
readArray(s, fin, line, n) ==
    LET count == Atoi(Tail(line)) IN
    IF ~count.ok
    THEN [st |-> "err", cmd |-> <<>>, n |-> n, msg |-> "strconv.Atoi: invalid syntax"]
    ELSE IF count.n < 0
    THEN [st |-> "panic", cmd |-> <<>>, n |-> n, msg |-> "makeslice"]
    ELSE readArgs(s, fin, count.n, <<>>, n)

\* RedisHandler.readCommand on the unread bytes s: the command, as the
\* sequence of its words, and the number of bytes read.
readCommand(s, fin) ==
    LET r == ReadString(s, fin)
        line == TrimSpace(r.line)
    IN  IF r.st # "ok" THEN [st |-> r.st, cmd |-> <<>>, n |-> r.n, msg |-> r.st]
        ELSE IF Len(line) = 0 THEN [st |-> "ok", cmd |-> <<>>, n |-> r.n, msg |-> ""]
        ELSE IF line[1] = 42 THEN readArray(Drop(s, r.n), fin, line, r.n)
        ELSE [st |-> "ok", cmd |-> Fields(line), n |-> r.n, msg |-> ""]

\* The names of the commands of RedisHandler.Handle that the model has.
AUTH == <<65, 85, 84, 72>>

PING == <<80, 73, 78, 71>>

GET == <<71, 69, 84>>

SET == <<83, 69, 84>>

DEL == <<68, 69, 76>>

INCRBY == <<73, 78, 67, 82, 66, 89>>

FLUSHDB == <<70, 76, 85, 83, 72, 68, 66>>

FLUSHALL == <<70, 76, 85, 83, 72, 65, 76, 76>>

QUIT == <<81, 85, 73, 84>>

ECHO == <<69, 67, 72, 79>>

EXPIRE == <<69, 88, 80, 73, 82, 69>>

\* What the model leaves out of RedisHandler.Handle: the commands EXISTS,
\* INCR, DECR, DECRBY, MGET, MSET, TTL, KEYS, DBSIZE, INFO and SELECT, and
\* the options of SET (SET with the one option NX or XX is RedisSetLoad
\* and RedisSetStore below).  No client of the specifications sends them.
redisLeftOut(cmd) ==
    \/ ToUpper(cmd[1]) \in
          { <<69, 88, 73, 83, 84, 83>>, <<73, 78, 67, 82>>, <<68, 69, 67, 82>>,
            <<68, 69, 67, 82, 66, 89>>, <<77, 71, 69, 84>>, <<77, 83, 69, 84>>,
            <<84, 84, 76>>, <<75, 69, 89, 83>>,
            <<68, 66, 83, 73, 90, 69>>, <<73, 78, 70, 79>>, <<83, 69, 76, 69, 67, 84>> }
    \/ ToUpper(cmd[1]) = SET /\ Len(cmd) > 3

\* A variant of the test of Handle that lets every command through.
noAuthNever(authenticated, cmdName) == FALSE

\* Handle: if !authenticated && cmdName != "AUTH" && cmdName != "PING"
noAuth(authenticated, cmdName) == ~authenticated /\ cmdName # AUTH /\ cmdName # PING

\* matchPattern, the loop "for i < len(pattern) && pattern[i] == '*'": the
\* index after the stars at i (indices count from 0, as in the program).
RECURSIVE skipStars(_, _)
skipStars(pattern, i) ==
    IF i < Len(pattern) /\ pattern[i + 1] = 42 THEN skipStars(pattern, i + 1) ELSE i

\* A variant of matchPattern in which a '*' ends the match wherever it stands.
matchPatternStarEnds(pattern, key) ==
    \/ \E i \in 1..Len(pattern) : pattern[i] = 42
    \/ pattern = key

\* matchPattern(pattern, key): matchLoop is its first loop from the indices
\* i and j, matchStar the loop over j at a '*' that is not the last byte.
RECURSIVE matchPattern(_, _)
RECURSIVE matchLoop(_, _, _, _)
RECURSIVE matchStar(_, _, _, _)
matchStar(pattern, key, i, j) ==
    IF j < Len(key)
    THEN IF matchPattern(Drop(pattern, i + 1), Drop(key, j)) THEN TRUE
         ELSE matchStar(pattern, key, i, j + 1)
    ELSE FALSE

matchLoop(pattern, key, i, j) ==
    IF i < Len(pattern) /\ j < Len(key)
    THEN IF pattern[i + 1] = 42
         THEN IF i = Len(pattern) - 1 THEN TRUE ELSE matchStar(pattern, key, i, j)
         ELSE IF pattern[i + 1] = 63 \/ pattern[i + 1] = key[j + 1]
         THEN matchLoop(pattern, key, i + 1, j + 1)
         ELSE FALSE
    ELSE skipStars(pattern, i) = Len(pattern) /\ j = Len(key)

matchPattern(pattern, key) ==
    IF pattern = <<42>> THEN TRUE ELSE matchLoop(pattern, key, 0, 0)

\* RedisHandler.handleDel
RECURSIVE handleDel(_, _, _, _)
handleDel(shs, hp, keys, deleted) ==
    IF keys = <<>> THEN [shards |-> shs, heap |-> hp, deleted |-> deleted]
    ELSE LET o == cacheDelete(shs, hp, Head(keys)) IN
         handleDel(o.shards, o.heap, Tail(keys), IF o.ret.ok THEN deleted + 1 ELSE deleted)

\* RedisHandler.handleExpire after its Load has returned o: the entry that
\* Load returned gets its expiry by SetExpireAt, a second being one unit of
\* the clock.
expireLoaded(cn, t, n, key, seconds, o) ==
    {Round(n, <<writeInteger(word64(IF o.ret.ok THEN 1 ELSE 0))>>, "Redis",
           cn.authenticated,
           IF o.ret.ok
           THEN [shards |-> o.shards,
                 heap |-> [o.heap EXCEPT ![o.ret.entry] = SetExpireAt(@, t + seconds)]]
           ELSE o,
           <<Op(cn, "Load", key)>>)}

\* RedisHandler.handleExpire, after a command of n bytes.
handleExpire(cn, shs, hp, t, n, key, secondsStr) ==
    IF ~Atoi(secondsStr).ok
    THEN {Round(n, <<writeError("ERR value is not an integer or out of range")>>,
                "Redis", cn.authenticated, [shards |-> shs, heap |-> hp], <<>>)}
    ELSE expireLoaded(cn, t, n, key, Atoi(secondsStr).n, cacheLoad(shs, hp, t, key))

\* One round of the loop of RedisHandler.Handle.
redisRound(cn, auth, shs, hp, t) ==
    LET r == readCommand(unread(cn), cn.fin)
        cmd == r.cmd
        cmdName == ToUpper(cmd[1])
        same == [shards |-> shs, heap |-> hp]
        reply(x) == Round(r.n, <<x>>, "Redis", cn.authenticated, same, <<>>)
        wrongArgs(name) ==
            reply(writeError("ERR wrong number of arguments for '" \o name \o "' command"))
    IN  CASE r.st = "block" -> {}
          [] r.st = "EOF" -> {Round(r.n, <<>>, "Closed", cn.authenticated, same, <<>>)}
          [] r.st \in {"err", "reset"} ->
                {Round(r.n, <<writeError(r.msg)>>, "Closed", cn.authenticated, same, <<>>)}
          [] r.st = "panic" -> {Round(r.n, <<>>, "Panic", cn.authenticated, same, <<>>)}
          [] r.st = "ok" /\ Len(cmd) = 0 ->
                {Round(r.n, <<>>, "Redis", cn.authenticated, same, <<>>)}
          [] r.st = "ok" /\ Len(cmd) > 0 ->
                IF redisLeftOut(cmd) THEN {}
                ELSE IF noAuth(cn.authenticated, cmdName)
                THEN {reply(writeError("NOAUTH Authentication required"))}
                ELSE CASE cmdName = AUTH ->
                            IF Len(cmd) # 2 THEN {wrongArgs("auth")}
                            ELSE IF cmd[2] = auth
                            THEN {Round(r.n, <<writeSimpleString("OK")>>, "Redis", TRUE,
                                        same, <<>>)}
                            ELSE {reply(writeError("ERR invalid password"))}
                       [] cmdName = PING ->
                            IF Len(cmd) = 1 THEN {reply(writeSimpleString("PONG"))}
                            ELSE {reply(writeBulkString(cmd[2]))}
                       [] cmdName = GET ->
                            IF Len(cmd) # 2 THEN {wrongArgs("get")}
                            ELSE LET o == cacheLoad(shs, hp, t, cmd[2]) IN
                                 {Round(r.n,
                                        <<IF o.ret.ok
                                          THEN writeBulkString(hp[o.ret.entry].value)
                                          ELSE writeNil>>,
                                        "Redis", cn.authenticated, o,
                                        <<Op(cn, "Load", cmd[2])>>)}
                       [] cmdName = SET ->
                            IF Len(cmd) < 3 THEN {wrongArgs("set")}
                            ELSE {Round(r.n, <<writeSimpleString("OK")>>, "Redis",
                                        cn.authenticated, o, <<Op(cn, "Store", cmd[2])>>)
                                  : o \in cacheStore(shs, hp, t, cmd[2], cmd[3],
                                                     StoreOptions(0, 0, word64(0)))}
                       [] cmdName = DEL ->
                            IF Len(cmd) < 2 THEN {wrongArgs("del")}
                            ELSE LET o == handleDel(shs, hp, Tail(cmd), 0) IN
                                 {Round(r.n, <<writeInteger(word64(o.deleted))>>, "Redis",
                                        cn.authenticated, o,
                                        [i \in 1..(Len(cmd) - 1) |->
                                            Op(cn, "Delete", cmd[i + 1])])}
                       [] cmdName = INCRBY ->
                            IF Len(cmd) # 3 THEN {wrongArgs("incrby")}
                            ELSE IF ~Atoi(cmd[3]).ok
                            THEN {reply(writeError(
                                      "ERR value is not an integer or out of range"))}
                            ELSE {Round(r.n, <<writeInteger(o.ret.val)>>, "Redis",
                                        cn.authenticated, o,
                                        <<Op(cn, "Increment", cmd[2])>>)
                                  : o \in cacheIncrement(shs, hp, t, cmd[2],
                                                         word64(Atoi(cmd[3]).n))}
                       [] cmdName \in {FLUSHDB, FLUSHALL} ->
                            {Round(r.n, <<writeSimpleString("OK")>>, "Redis",
                                   cn.authenticated, cacheClear(shs, hp),
                                   <<Op(cn, "Clear", <<>>)>>)}
                       [] cmdName = QUIT ->
                            {Round(r.n, <<writeSimpleString("OK")>>, "Closed",
                                   cn.authenticated, same, <<>>)}
                       [] cmdName = EXPIRE ->
                            IF Len(cmd) # 3 THEN {wrongArgs("expire")}
                            ELSE handleExpire(cn, shs, hp, t, r.n, cmd[2], cmd[3])
                       [] cmdName = ECHO ->
                            IF Len(cmd) # 2 THEN {wrongArgs("echo")}
                            ELSE {reply(writeBulkString(cmd[2]))}
                       [] OTHER ->
                            {Round(r.n, <<Reply("error", "ERR unknown command", cmdName,
                                                word64(0))>>,
                                   "Redis", cn.authenticated, same, <<>>)}

\* The state after a round of the handler of connection c.  A panic is not
\* recovered: the process ends, and every connection with it.
Handled(c, o) ==
    /\ conns' = [d \in DOMAIN conns |->
                    IF o.pc = "Panic"
                    THEN [IF d = c THEN consume(conns[d], o.n) ELSE conns[d]
                             EXCEPT !.pc = "Crashed"]
                    ELSE IF d = c
                    THEN [consume(conns[c], o.n) EXCEPT
                              !.out = @ \o o.out,
                              !.pc = o.pc,
                              !.authenticated = o.authenticated,
                              !.ops = @ \o o.ops]
                    ELSE conns[d]]
    /\ shards' = o.shards
    /\ heap' = Collect(o.heap, o.shards, procs)
    /\ UNCHANGED <<maxMemory, now, procs, kv, steps, server>>

\* RedisHandler.Handle on connection c, one round of its loop.
RedisHandle(c) ==
    /\ conns[c].pc = "Redis"
    /\ \E o \in redisRound(conns[c], server.Auth, shards, heap, now) : Handled(c, o)

\* SET key value NX or SET key value XX: the one option of the command.
setOption(cmd) ==
    IF Len(cmd) = 4 /\ ToUpper(cmd[1]) = SET /\ ToUpper(cmd[4]) \in {<<78, 88>>, <<88, 88>>}
    THEN ToUpper(cmd[4]) ELSE <<>>

\* handleSet with the option NX or XX after its h.cache.Load has returned
\* o: nil is written and the command ends if the key is there (NX) or is
\* not (XX); otherwise h.cache.Store is still to come.
setLoaded(cn, n, cmd, o) ==
    IF (setOption(cmd) = <<78, 88>>) = o.ret.ok
    THEN [consume(cn, n) EXCEPT !.out = Append(@, writeNil),
                                !.ops = Append(@, Op(cn, "Load", cmd[2]))]
    ELSE [consume(cn, n) EXCEPT !.pc = "RedisSet", !.args = cmd,
                                !.ops = Append(@, Op(cn, "Load", cmd[2]))]

\* RedisHandler.Handle on connection c: a round that reads SET key value NX
\* (or XX), up to the return of the Load in handleSet.
RedisSetLoad(c) ==
    LET cn == conns[c]
        r == readCommand(unread(cn), cn.fin)
    IN  /\ cn.pc = "Redis"
        /\ r.st = "ok"
        /\ Len(r.cmd) > 0
        /\ setOption(r.cmd) # <<>>
        /\ IF noAuth(cn.authenticated, SET)
           THEN /\ conns' = [conns EXCEPT ![c] =
                                [consume(cn, r.n) EXCEPT
                                     !.out = Append(@, writeError(
                                                 "NOAUTH Authentication required"))]]
                /\ UNCHANGED <<shards, heap>>
           ELSE \E o \in {cacheLoad(shards, heap, now, r.cmd[2])} :
                    /\ conns' = [conns EXCEPT ![c] = setLoaded(cn, r.n, r.cmd, o)]
                    /\ shards' = o.shards
                    /\ heap' = Collect(o.heap, o.shards, procs)
        /\ UNCHANGED <<maxMemory, now, procs, kv, steps, server>>

\* handleSet, after the Load: h.cache.Store(key, value, opts) and +OK.
RedisSetStore(c) ==
    LET cn == conns[c] IN
    /\ cn.pc = "RedisSet"
    /\ \E o \in cacheStore(shards, heap, now, cn.args[2], cn.args[3],
                           StoreOptions(0, 0, word64(0))) :
           /\ conns' = [conns EXCEPT ![c] =
                           [cn EXCEPT !.pc = "Redis", !.args = <<>>,
                                      !.out = Append(@, writeSimpleString("OK")),
                                      !.ops = Append(@, Op(cn, "Store", cn.args[2]))]]
           /\ shards' = o.shards
           /\ heap' = Collect(o.heap, o.shards, procs)
    /\ UNCHANGED <<maxMemory, now, procs, kv, steps, server>>

\* strconv.ParseUint in base 10: digits, and no sign.
ParseUint(s) ==
    IF s = <<>> \/ \E i \in 1..Len(s) : s[i] \notin 48..57
    THEN [ok |-> FALSE, n |-> 0]
    ELSE [ok |-> TRUE, n |-> decimal(s)]

\* What the model leaves out of MemcacheHandler.Handle: gets, add, replace,
\* append, prepend, cas, incr, decr and stats.  No client of the
\* specifications sends them.
memcacheLeftOut(cmd) ==
    cmd \in { <<103, 101, 116, 115>>, <<97, 100, 100>>,
              <<114, 101, 112, 108, 97, 99, 101>>, <<97, 112, 112, 101, 110, 100>>,
              <<112, 114, 101, 112, 101, 110, 100>>, <<99, 97, 115>>,
              <<105, 110, 99, 114>>, <<100, 101, 99, 114>>,
              <<115, 116, 97, 116, 115>> }

\* MemcacheHandler.handleGet after a command line of n0 bytes: the loop over
\* the keys, with the VALUE lines and data blocks written (out) and the
\* calls made (ops) so far, and the END line after it.
RECURSIVE memcacheGet(_, _, _, _, _, _, _, _)
\* The body of the loop for Head(keys), whose Load has returned o.
memcacheGetKey(cn, hp, t, n0, keys, out, ops, o) ==
    memcacheGet(cn, o.shards, o.heap, t, n0, Tail(keys),
                IF o.ret.ok
                THEN out \o << Reply("VALUE", "", Head(keys), word64(hp[o.ret.entry].flags)),
                               Reply("data", "", hp[o.ret.entry].value, word64(0)) >>
                ELSE out,
                Append(ops, Op(cn, "Load", Head(keys))))

memcacheGet(cn, shs, hp, t, n0, keys, out, ops) ==
    IF keys = <<>>
    THEN {Round(n0, Append(out, Reply("line", "END", <<>>, word64(0))), "Memcache",
                cn.authenticated, [shards |-> shs, heap |-> hp], ops)}
    ELSE memcacheGetKey(cn, hp, t, n0, keys, out, ops, cacheLoad(shs, hp, t, Head(keys)))

\* A round of the Memcache handler that writes one line, msg, after reading
\* n bytes, and leaves the cache alone.
memcacheLine(cn, shs, hp, n, msg) ==
    Round(n, <<Reply("line", msg, <<>>, word64(0))>>, "Memcache", cn.authenticated,
          [shards |-> shs, heap |-> hp], <<>>)

noreply == <<110, 111, 114, 101, 112, 108, 121>>

\* MemcacheHandler.handleStore with addOnly = replaceOnly = false, after a
\* command line of n0 bytes with the words parts: rest is what follows the
\* line.
memcacheStore(cn, shs, hp, t, rest, n0, parts) ==
    IF Len(parts) < 5
    THEN {memcacheLine(cn, shs, hp, n0, "CLIENT_ERROR bad command line format")}
    ELSE LET flags == ParseUint(parts[3])
             exptime == Atoi(parts[4])
             bytes == Atoi(parts[5])
         IN  IF ~flags.ok \/ ~exptime.ok \/ ~bytes.ok
             THEN {memcacheLine(cn, shs, hp, n0, "CLIENT_ERROR bad command line format")}
             ELSE IF bytes.n < 0
             THEN {Round(n0, <<>>, "Panic", cn.authenticated,
                         [shards |-> shs, heap |-> hp], <<>>)}
             ELSE IF Len(rest) < bytes.n
             THEN IF cn.fin = "open" THEN {}
                  ELSE {memcacheLine(cn, shs, hp, n0 + Len(rest),
                                     "CLIENT_ERROR bad data chunk")}
             ELSE LET skip == ReadString(Drop(rest, bytes.n), cn.fin)
                      ttl == IF exptime.n <= 0 THEN 0
                             ELSE IF exptime.n < 2592000 THEN exptime.n
                             ELSE exptime.n - t
                      l == cacheLoad(shs, hp, t, parts[2])
                  IN  IF skip.st = "block" THEN {}
                      ELSE {Round(n0 + bytes.n + skip.n,
                                  IF Len(parts) > 5 /\ parts[6] = noreply THEN <<>>
                                  ELSE <<Reply("line", "STORED", <<>>, word64(0))>>,
                                  "Memcache", cn.authenticated, o,
                                  << Op(cn, "Load", parts[2]), Op(cn, "Store", parts[2]) >>)
                            : o \in cacheStore(l.shards, l.heap, t, parts[2],
                                               Take(rest, bytes.n),
                                               StoreOptions(ttl, flags.n, word64(0)))}

\* MemcacheHandler.handleDelete, after a command line of n0 bytes.
memcacheDelete(cn, shs, hp, n0, parts) ==
    IF Len(parts) < 2
    THEN {memcacheLine(cn, shs, hp, n0, "CLIENT_ERROR bad command line format")}
    ELSE LET o == cacheDelete(shs, hp, parts[2]) IN
         {Round(n0,
                IF Len(parts) > 2 /\ parts[Len(parts)] = noreply THEN <<>>
                ELSE <<Reply("line", IF o.ret.ok THEN "DELETED" ELSE "NOT_FOUND",
                             <<>>, word64(0))>>,
                "Memcache", cn.authenticated, o, <<Op(cn, "Delete", parts[2])>>)}

\* MemcacheHandler.handleTouch after its Load has returned o.  An exptime
\* below 30 days counts from now, a larger one is a date, and one that is
\* not positive clears the expiry; a second is one unit of the clock.
touchLoaded(cn, t, n0, parts, exptime, o) ==
    {Round(n0,
           IF Len(parts) > 3 /\ parts[4] = noreply THEN <<>>
           ELSE <<Reply("line", IF o.ret.ok THEN "TOUCHED" ELSE "NOT_FOUND",
                        <<>>, word64(0))>>,
           "Memcache", cn.authenticated,
           IF o.ret.ok
           THEN [shards |-> o.shards,
                 heap |-> [o.heap EXCEPT ![o.ret.entry] =
                              SetExpireAt(@, IF exptime <= 0 THEN 0
                                             ELSE IF exptime < 2592000 THEN t + exptime
                                             ELSE exptime)]]
           ELSE o,
           <<Op(cn, "Load", parts[2])>>)}

\* MemcacheHandler.handleTouch, after a command line of n0 bytes.
memcacheTouch(cn, shs, hp, t, n0, parts) ==
    IF Len(parts) < 3 \/ ~Atoi(parts[3]).ok
    THEN {memcacheLine(cn, shs, hp, n0, "CLIENT_ERROR bad command line format")}
    ELSE touchLoaded(cn, t, n0, parts, Atoi(parts[3]).n,
                     cacheLoad(shs, hp, t, parts[2]))

\* The switch of MemcacheHandler.Handle on the command word cmd of a line
\* of n0 bytes with the words parts.  The words of the protocol are get,
\* set, delete, touch, flush_all, version and quit.
memcacheCommand(cn, shs, hp, t, rest, n0, parts, cmd) ==
    IF memcacheLeftOut(cmd) THEN {}
    ELSE CASE cmd = <<103, 101, 116>> ->
                memcacheGet(cn, shs, hp, t, n0, Tail(parts), <<>>, <<>>)
           [] cmd = <<115, 101, 116>> -> memcacheStore(cn, shs, hp, t, rest, n0, parts)
           [] cmd = <<100, 101, 108, 101, 116, 101>> ->
                memcacheDelete(cn, shs, hp, n0, parts)
           [] cmd = <<116, 111, 117, 99, 104>> -> memcacheTouch(cn, shs, hp, t, n0, parts)
           [] cmd = <<102, 108, 117, 115, 104, 95, 97, 108, 108>> ->
                {Round(n0, <<Reply("line", "OK", <<>>, word64(0))>>, "Memcache",
                       cn.authenticated, cacheClear(shs, hp), <<Op(cn, "Clear", <<>>)>>)}
           [] cmd = <<118, 101, 114, 115, 105, 111, 110>> ->
                {memcacheLine(cn, shs, hp, n0, "VERSION 1.6.0")}
           [] cmd = <<113, 117, 105, 116>> ->
                {Round(n0, <<>>, "Closed", cn.authenticated,
                       [shards |-> shs, heap |-> hp], <<>>)}
           [] OTHER -> {memcacheLine(cn, shs, hp, n0, "ERROR")}

\* One round of the loop of MemcacheHandler.Handle: a line is read, cut
\* into words, and its first word, in lower case, selects the command.
memcacheRound(cn, shs, hp, t) ==
    LET r == ReadString(unread(cn), cn.fin)
        same == [shards |-> shs, heap |-> hp]
    IN  CASE r.st = "block" -> {}
          [] r.st = "EOF" -> {Round(r.n, <<>>, "Closed", cn.authenticated, same, <<>>)}
          [] r.st = "reset" ->
                {Round(r.n, <<Reply("line", "ERROR", <<>>, word64(0))>>, "Closed",
                       cn.authenticated, same, <<>>)}
          [] r.st = "ok" ->
                IF Fields(TrimSpace(r.line)) = <<>>
                THEN {Round(r.n, <<>>, "Memcache", cn.authenticated, same, <<>>)}
                ELSE memcacheCommand(cn, shs, hp, t, Drop(unread(cn), r.n), r.n,
                                     Fields(TrimSpace(r.line)),
                                     ToLower(Fields(TrimSpace(r.line))[1]))

\* MemcacheHandler.Handle on connection c, one round of its loop.
MemcacheHandle(c) ==
    /\ conns[c].pc = "Memcache"
    /\ \E o \in memcacheRound(conns[c], shards, heap, now) : Handled(c, o)

(***************************************************************************)
(* HTTPHandler (part_004).  http.ReadRequest is a library outside the      *)
(* repository; it is modelled by what it does on the requests of the       *)
(* model: a request line "method uri HTTP/x.y", header lines "Name: value" *)
(* up to an empty line, each line ending with \n or \r\n, and a body of    *)
(* Content-Length bytes that stays in the reader until the handler reads   *)
(* it from req.Body.  The handler writes into a bufio.Writer: what it      *)
(* writes reaches the client with the next Flush.                          *)
(***************************************************************************)
\* strings.Trim(s, cutset), bytes.TrimRight(s, cutset)
RECURSIVE trimRightOf(_, _)
trimRightOf(s, cutset) ==
    IF s # <<>> /\ s[Len(s)] \in cutset
    THEN trimRightOf(SubSeq(s, 1, Len(s) - 1), cutset) ELSE s

RECURSIVE trimLeftOf(_, _)
trimLeftOf(s, cutset) ==
    IF s # <<>> /\ s[1] \in cutset THEN trimLeftOf(Tail(s), cutset) ELSE s

Trim(s, cutset) == trimRightOf(trimLeftOf(s, cutset), cutset)

\* strings.Cut(s, sep) for a separator of one byte
Cut(s, sep) ==
    IF \E i \in 1..Len(s) : s[i] = sep
    THEN LET n == CHOOSE i \in 1..Len(s) : s[i] = sep /\ \A j \in 1..(i - 1) : s[j] # sep
         IN  [before |-> Take(s, n - 1), after |-> Drop(s, n), found |-> TRUE]
    ELSE [before |-> s, after |-> <<>>, found |-> FALSE]

\* The lines of the head of a request, without their line ends, and the
\* bytes n they take.  The stream may end before the first line only.
RECURSIVE readHead(_, _, _, _)
readHead(s, fin, n, lines) ==
    LET r == ReadString(Drop(s, n), fin)
        line == trimRightOf(r.line, {13, 10})
    IN  IF r.st = "block" THEN [st |-> "block", n |-> n, lines |-> lines]
        ELSE IF r.st # "ok"
        THEN [st |-> IF r.st = "EOF" /\ n + r.n = 0 THEN "EOF" ELSE "err",
              n |-> n + r.n, lines |-> lines]
        ELSE IF line = <<>>
        THEN [st |-> IF lines = <<>> THEN "err" ELSE "ok", n |-> n + r.n, lines |-> lines]
        ELSE readHead(s, fin, n + r.n, Append(lines, line))

\* The proto of a request line: HTTP/x.y with two digits.
validProto(proto) ==
    /\ Len(proto) = 8
    /\ Take(proto, 5) = <<72, 84, 84, 80, 47>>
    /\ proto[6] \in 48..57 /\ proto[7] = 46 /\ proto[8] \in 48..57

\* req.Header.Get(name): the value of the first header line of that name,
\* without the spaces around it, and "" without one.  Names compare without
\* regard to case.
headerGet(lines, name) ==
    LET named == SelectSeq(Tail(lines),
                           LAMBDA l : ToLower(Cut(l, 58).before) = ToLower(name))
    IN  IF named = <<>> THEN <<>> ELSE TrimSpace(Cut(named[1], 58).after)

\* http.ReadRequest on the unread bytes s: the request (method, path, head
\* lines, ContentLength) and the bytes n of its head.
ReadRequest(s, fin) ==
    LET h == readHead(s, fin, 0, <<>>)
        first == Cut(h.lines[1], 32)
        second == Cut(first.after, 32)
        length == Atoi(headerGet(h.lines, <<67, 111, 110, 116, 101, 110, 116, 45,
                                            76, 101, 110, 103, 116, 104>>))
        malformed ==
            \/ ~first.found \/ ~second.found \/ first.before = <<>>
            \/ ~validProto(second.after)
            \/ second.before = <<>> \/ second.before[1] # 47
            \/ \E i \in 2..Len(h.lines) : ~Cut(h.lines[i], 58).found
            \/ length.ok /\ length.n < 0
    IN  IF h.st # "ok" THEN [st |-> h.st, n |-> h.n]
        ELSE IF malformed THEN [st |-> "err", n |-> h.n]
        ELSE [st |-> "ok", n |-> h.n, Method |-> first.before,
              Path |-> Cut(second.before, 63).before, Header |-> h.lines,
              ContentLength |-> IF length.ok THEN length.n ELSE 0]

\* HTTPHandler.writeResponse and writeError: the status, and the body or the
\* message of the error.
writeResponse(status, body) == Reply("HTTP", "", body, word64(status))

httpError(status, message) == Reply("HTTP", message, <<>>, word64(status))

\* What a round of the HTTP handler gives: a Round, with flush telling
\* whether the round ended with writer.Flush().
httpRound(n, out, pc, cache, ops, flush) ==
    [n |-> n, out |-> out, pc |-> pc, shards |-> cache.shards, heap |-> cache.heap,
     ops |-> ops, flush |-> flush]

\* What the model leaves out of the HTTP handler: GET of the paths "",
\* stats and keys (handleStats, handleKeys), the header X-CAS of handleSet,
\* and a uri with an escape.  No client of the specifications sends them.
httpLeftOut(req) ==
    \/ req.Method = GET /\ req.Path \in { <<47>>, <<47, 115, 116, 97, 116, 115>>,
                                          <<47, 107, 101, 121, 115>> }
    \/ headerGet(req.Header, <<88, 45, 67, 65, 83>>) # <<>>
    \/ \E i \in 1..Len(req.Path) : req.Path[i] = 37

\* handleGet and handleHead after their Load has returned o: 404, or the
\* value (for HEAD its headers only).
httpLoaded(cn, n, key, o, close, withBody) ==
    {httpRound(n,
               <<IF ~o.ret.ok THEN httpError(404, "Key not found")
                 ELSE writeResponse(200, IF withBody THEN o.heap[o.ret.entry].value
                                         ELSE <<>>)>>,
               IF close THEN "Closed" ELSE "HTTP", o, <<Op(cn, "Load", key)>>, TRUE)}

\* handleDelete after its Delete has returned o.
httpDeleted(cn, n, key, o, close) ==
    {httpRound(n,
               <<IF o.ret.ok THEN writeResponse(200, <<79, 75>>)
                 ELSE httpError(404, "Key not found")>>,
               IF close THEN "Closed" ELSE "HTTP", o, <<Op(cn, "Delete", key)>>, TRUE)}

\* handleSet: the body is read from req.Body, ContentLength bytes that
\* follow the head (rest); the options come from the headers X-TTL and
\* X-Flags, where a value that is no number is ignored.
handleSet(cn, shs, hp, t, req, rest, close) ==
    LET same == [shards |-> shs, heap |-> hp]
        next == IF close THEN "Closed" ELSE "HTTP"
        key == Tail(req.Path)
        ttl == Atoi(headerGet(req.Header, <<88, 45, 84, 84, 76>>))
        flags == ParseUint(headerGet(req.Header, <<88, 45, 70, 108, 97, 103, 115>>))
    IN  IF key = <<>>
        THEN {httpRound(req.n, <<httpError(400, "Key required")>>, next, same, <<>>, TRUE)}
        ELSE IF Len(rest) < req.ContentLength
        THEN IF cn.fin = "open" THEN {}
             ELSE {httpRound(req.n + Len(rest), <<httpError(400, "Failed to read body")>>,
                             next, same, <<>>, TRUE)}
        ELSE {httpRound(req.n + req.ContentLength, <<writeResponse(201, <<79, 75>>)>>,
                        next, o, <<Op(cn, "Store", key)>>, TRUE)
              : o \in cacheStore(shs, hp, t, key, Take(rest, req.ContentLength),
                                 StoreOptions(IF ttl.ok THEN ttl.n ELSE 0,
                                              IF flags.ok THEN flags.n ELSE 0,
                                              word64(0)))}

\* The switch of Handle on the method of an authorised request, then
\* writer.Flush(), and the end of the connection after "Connection: close".
httpMethod(cn, shs, hp, t, req, rest, close) ==
    LET same == [shards |-> shs, heap |-> hp]
        next == IF close THEN "Closed" ELSE "HTTP"
        key == Tail(req.Path)
        keyRequired == {httpRound(req.n, <<httpError(400, "Key required")>>, next, same,
                                  <<>>, TRUE)}
    IN  CASE req.Method = GET ->
                httpLoaded(cn, req.n, key, cacheLoad(shs, hp, t, key), close, TRUE)
          [] req.Method \in { <<80, 79, 83, 84>>, <<80, 85, 84>> } ->
                handleSet(cn, shs, hp, t, req, rest, close)
          [] req.Method = <<68, 69, 76, 69, 84, 69>> ->
                IF key = <<>> THEN keyRequired
                ELSE httpDeleted(cn, req.n, key, cacheDelete(shs, hp, key), close)
          [] req.Method = <<72, 69, 65, 68>> ->
                IF key = <<>> THEN keyRequired
                ELSE httpLoaded(cn, req.n, key, cacheLoad(shs, hp, t, key), close, FALSE)
          [] OTHER ->
                {httpRound(req.n, <<httpError(405, "Method not allowed")>>, next, same,
                           <<>>, TRUE)}

\* The Authorization header of a request is "Bearer " and the password.
authorized(req, auth) ==
    LET authHeader == headerGet(req.Header, <<65, 117, 116, 104, 111, 114, 105, 122,
                                              97, 116, 105, 111, 110>>)
    IN  HasPrefix(authHeader, <<66, 101, 97, 114, 101, 114, 32>>) /\ Drop(authHeader, 7) = auth

\* One round of the loop of HTTPHandler.Handle on the request req.  A
\* request that ReadRequest refuses is answered with 400 and the handler
\* returns; an unauthorised one is answered with 401 and the loop continues
\* at once: neither path reaches writer.Flush().
httpRequest(cn, auth, shs, hp, t, req, rest) ==
    LET same == [shards |-> shs, heap |-> hp] IN
    CASE req.st = "block" -> {}
      [] req.st = "EOF" -> {httpRound(req.n, <<>>, "Closed", same, <<>>, FALSE)}
      [] req.st = "err" ->
            {httpRound(req.n, <<httpError(400, "malformed HTTP request")>>, "Closed",
                       same, <<>>, FALSE)}
      [] OTHER ->
            IF httpLeftOut(req) THEN {}
            ELSE IF auth # <<>> /\ ~authorized(req, auth)
            THEN {httpRound(req.n, <<httpError(401, "Unauthorized")>>, "HTTP", same,
                            <<>>, FALSE)}
            ELSE httpMethod(cn, shs, hp, t, req, rest,
                            headerGet(req.Header, <<67, 111, 110, 110, 101, 99, 116,
                                                    105, 111, 110>>)
                                = <<99, 108, 111, 115, 101>>)

\* HTTPHandler.Handle on connection c, one round of its loop.  Flush sends
\* what the writer holds; what it holds when the handler returns is lost
\* with the connection.
HTTPHandle(c) ==
    /\ conns[c].pc = "HTTP"
    /\ \E o \in httpRequest(conns[c], server.Auth, shards, heap, now,
                            ReadRequest(unread(conns[c]), conns[c].fin),
                            Drop(unread(conns[c]),
                                 ReadRequest(unread(conns[c]), conns[c].fin).n)) :
          /\ o.flush => ~conns[c].stalled
          /\ conns' = [conns EXCEPT ![c] =
                          [consume(@, o.n) EXCEPT
                               !.out = IF o.flush THEN @ \o conns[c].wbuf \o o.out ELSE @,
                               !.wbuf = IF o.flush THEN <<>> ELSE @ \o o.out,
                               !.pc = o.pc,
                               !.ops = @ \o o.ops]]
          /\ shards' = o.shards
          /\ heap' = Collect(o.heap, o.shards, procs)
          /\ UNCHANGED <<maxMemory, now, procs, kv, steps, server>>

(***************************************************************************)
(* PostgresHandler (part_005).  The handler reads from and writes to the   *)
(* connection itself, without a buffer of its own: every message it sends  *)
(* is one conn.Write.  Its pc is "Postgres" in handleStartup and           *)
(* "PostgresLoop" in the loop of Handle.                                   *)
(***************************************************************************)
\* binary.BigEndian.Uint32
Uint32(b) == ((b[1] * 256 + b[2]) * 256 + b[3]) * 256 + b[4]

\* strings.Split(s, sep) for a separator of one byte
RECURSIVE Split(_, _)
Split(s, sep) ==
    IF \E i \in 1..Len(s) : s[i] = sep
    THEN LET n == CHOOSE i \in 1..Len(s) : s[i] = sep /\ \A j \in 1..(i - 1) : s[j] # sep
         IN  <<Take(s, n - 1)>> \o Split(Drop(s, n), sep)
    ELSE <<s>>

\* strings.Join(parts, " ")
RECURSIVE Join(_)
Join(parts) ==
    IF parts = <<>> THEN <<>>
    ELSE IF Len(parts) = 1 THEN parts[1]
    ELSE parts[1] \o <<32>> \o Join(Tail(parts))

\* The loop "for i, part := range parts { if part == word ... }": the index
\* of the first part that is the word, counted from 0, and -1 without one.
indexOfWord(parts, word) ==
    IF \E i \in 1..Len(parts) : parts[i] = word
    THEN (CHOOSE i \in 1..Len(parts) :
              parts[i] = word /\ \A j \in 1..(i - 1) : parts[j] # word) - 1
    ELSE -1

quotes == {39, 34}                                  \* "'\""

\* The messages of the handler: sendAuthenticationOk,
\* sendAuthenticationCleartextPassword, sendReadyForQuery, sendErrorResponse,
\* sendRowDescription, sendDataRow (each column is its length and its
\* bytes) and sendCommandComplete.
sendAuthenticationOk == Reply("R", "", <<>>, word64(0))

sendAuthenticationCleartextPassword == Reply("R", "", <<>>, word64(3))

sendReadyForQuery == Reply("Z", "I", <<>>, word64(0))

sendErrorResponse(code, message) == Reply("E", code \o " " \o message, <<>>, word64(0))

sendRowDescription == Reply("T", "key,value", <<>>, word64(2))

sendDataRow(key, value) ==
    Reply("D", "", <<Len(key)>> \o key \o <<Len(value)>> \o value, word64(2))

sendCommandComplete(tag, n) == Reply("C", tag, <<>>, word64(n))

\* What a round of the Postgres handler gives: a Round, with the scan that a
\* SELECT without key starts (idx is its first shard, 0 without a scan, and
\* table the prefix of the keys it sends).
postgresRound(n, out, pc, authenticated, cache, ops) ==
    [n |-> n, out |-> out, pc |-> pc, authenticated |-> authenticated,
     shards |-> cache.shards, heap |-> cache.heap, ops |-> ops, idx |-> 0, table |-> <<>>]

\* io.ReadFull(conn, buf) on the unread bytes s for a buffer of n bytes.
ReadFull(s, fin, n) ==
    IF Len(s) >= n THEN "ok" ELSE IF fin = "open" THEN "block" ELSE "err"

\* length-8 in uint32, the size of the buffer handleStartup makes for the
\* parameters, in two limbs of 16 bits: below 8 the subtraction wraps.
startupParams(length) ==
    LET lo == length % 65536
        hi == length \div 65536
        borrow == IF lo < 8 THEN 1 ELSE 0
    IN  [hi |-> (hi + 65536 - borrow) % 65536, lo |-> (lo + 65536 - 8) % 65536]

\* io.ReadFull(conn, params) on the unread bytes s for a buffer of that size.
readParams(s, fin, size) ==
    IF size.hi < 32768 /\ Len(s) >= size.hi * 65536 + size.lo THEN "ok"
    ELSE IF fin = "open" THEN "block" ELSE "err"

\* handleStartup: eight bytes with the length and the version, which must
\* be 196608 (3.0), then length-8 bytes of parameters; the handler asks for
\* the password if it has one, and else the session is ready.
handleStartup(cn, auth, same) ==
    LET s == unread(cn)
        params == startupParams(Uint32(SubSeq(s, 1, 4)))
        version == Uint32(SubSeq(s, 5, 8))
    IN  CASE ReadFull(s, cn.fin, 8) = "block" -> {}
          [] ReadFull(s, cn.fin, 8) = "err" ->
                {postgresRound(Len(s), <<>>, "Closed", FALSE, same, <<>>)}
          [] OTHER ->
                IF version # 196608
                THEN {postgresRound(8, <<>>, "Closed", FALSE, same, <<>>)}
                ELSE CASE readParams(Drop(s, 8), cn.fin, params) = "block" -> {}
                       [] readParams(Drop(s, 8), cn.fin, params) = "err" ->
                             {postgresRound(Len(s), <<>>, "Closed", FALSE, same, <<>>)}
                       [] OTHER ->
                             {postgresRound(8 + params.lo,
                                  IF auth # <<>> THEN <<sendAuthenticationCleartextPassword>>
                                  ELSE <<sendAuthenticationOk, sendReadyForQuery>>,
                                  "PostgresLoop", auth = <<>>, same, <<>>)}

\* What the model leaves out of the Postgres handler: a message whose
\* length field is smaller than the bytes already read (the unsigned
\* subtraction wraps) or does not fit 31 bits, and UPDATE.  No client of the
\* specifications sends them.
postgresLeftOut(cn) ==
    LET s == unread(cn) IN
    IF cn.pc = "Postgres"
    THEN FALSE
    ELSE /\ Len(s) >= 5
         /\ \/ s[2] >= 128
            \/ Uint32(SubSeq(s, 2, 5)) < 4
            \/ LET length == Uint32(SubSeq(s, 2, 5)) + 1 IN
               /\ Len(s) >= length
               /\ s[1] = 81
               /\ HasPrefix(TrimSpace(ToUpper(trimRightOf(SubSeq(s, 6, length), {0}))),
                            <<85, 80, 68, 65, 84, 69, 32>>)

\* handleSelect on the words of the query.  With a key (WHERE column = key)
\* it Loads table:key; without one it sends the row description and scans
\* the cache with Iterate, which the round leaves to the steps of the scan.
handleSelectKey(cn, t, n, parts, key, o) ==
    {postgresRound(n,
         IF o.ret.ok
         THEN << sendRowDescription, sendDataRow(key, o.heap[o.ret.entry].value),
                 sendCommandComplete("SELECT", 1), sendReadyForQuery >>
         ELSE << sendRowDescription, sendCommandComplete("SELECT", 0), sendReadyForQuery >>,
         "PostgresLoop", cn.authenticated, o, <<Op(cn, "Load", parts[4] \o <<58>> \o key)>>)}

handleSelect(cn, shs, hp, t, n, parts) ==
    LET same == [shards |-> shs, heap |-> hp]
        whereIdx == indexOfWord(parts, <<87, 72, 69, 82, 69>>)
        key == IF whereIdx > 0 /\ whereIdx + 3 < Len(parts) /\ parts[whereIdx + 3] = <<61>>
               THEN Trim(parts[whereIdx + 4], quotes)
               ELSE <<>>
    IN  IF Len(parts) < 4 \/ parts[3] # <<70, 82, 79, 77>>
        THEN {postgresRound(n, <<sendErrorResponse("42601", "syntax error"),
                                 sendReadyForQuery>>,
                            "PostgresLoop", cn.authenticated, same, <<>>)}
        ELSE IF key = <<>>
        THEN {[postgresRound(n, <<sendRowDescription>>, "PostgresIterate",
                             cn.authenticated, same, <<Op(cn, "Iterate", <<>>)>>)
                  EXCEPT !.idx = 1, !.table = parts[4]]}
        ELSE handleSelectKey(cn, t, n, parts, key,
                             cacheLoad(shs, hp, t, parts[4] \o <<58>> \o key))

\* handleInsert: INSERT INTO table VALUES (key, value) stores table:key.
handleInsert(cn, shs, hp, t, n, parts) ==
    LET same == [shards |-> shs, heap |-> hp]
        syntaxError == {postgresRound(n, <<sendErrorResponse("42601", "syntax error"),
                                           sendReadyForQuery>>,
                                      "PostgresLoop", cn.authenticated, same, <<>>)}
        valuesIdx == indexOfWord(parts, <<86, 65, 76, 85, 69, 83>>)
        valueParts == Split(Trim(Join(SubSeq(parts, valuesIdx + 2, Len(parts))), {40, 41}),
                            44)
    IN  IF Len(parts) < 5 \/ parts[2] # <<73, 78, 84, 79>> THEN syntaxError
        ELSE IF valuesIdx < 0 \/ valuesIdx + 1 >= Len(parts) THEN syntaxError
        ELSE IF Len(valueParts) < 2 THEN syntaxError
        ELSE {postgresRound(n, <<sendCommandComplete("INSERT 0", 1), sendReadyForQuery>>,
                            "PostgresLoop", cn.authenticated, o,
                            <<Op(cn, "Store",
                                 parts[3] \o <<58>> \o TrimSpace(Trim(valueParts[1], quotes)))>>)
              : o \in cacheStore(shs, hp, t,
                                 parts[3] \o <<58>> \o TrimSpace(Trim(valueParts[1], quotes)),
                                 TrimSpace(Trim(valueParts[2], quotes)),
                                 NilOptions)}

\* handleDelete: DELETE FROM table WHERE column = key deletes table:key.
postgresDeleted(cn, n, key, o) ==
    {postgresRound(n, <<sendCommandComplete("DELETE", IF o.ret.ok THEN 1 ELSE 0),
                        sendReadyForQuery>>,
                   "PostgresLoop", cn.authenticated, o, <<Op(cn, "Delete", key)>>)}

postgresDelete(cn, shs, hp, n, parts) ==
    LET whereIdx == indexOfWord(parts, <<87, 72, 69, 82, 69>>) IN
    IF \/ Len(parts) < 6 \/ parts[2] # <<70, 82, 79, 77>>
       \/ whereIdx < 0 \/ whereIdx + 3 >= Len(parts)
    THEN {postgresRound(n, <<sendErrorResponse("42601", "syntax error"),
                             sendReadyForQuery>>,
                        "PostgresLoop", cn.authenticated, [shards |-> shs, heap |-> hp],
                        <<>>)}
    ELSE postgresDeleted(cn, n, parts[3] \o <<58>> \o Trim(parts[whereIdx + 4], quotes),
                         cacheDelete(shs, hp,
                                     parts[3] \o <<58>> \o Trim(parts[whereIdx + 4], quotes)))

\* handleQuery: the query in upper case selects its handler by its first
\* word; the answer ends with ReadyForQuery.
handleQuery(cn, shs, hp, t, n, query) ==
    IF HasPrefix(query, <<83, 69, 76, 69, 67, 84, 32>>)
    THEN handleSelect(cn, shs, hp, t, n, Fields(query))
    ELSE IF HasPrefix(query, <<73, 78, 83, 69, 82, 84, 32>>)
    THEN handleInsert(cn, shs, hp, t, n, Fields(query))
    ELSE IF HasPrefix(query, <<68, 69, 76, 69, 84, 69, 32>>)
    THEN postgresDelete(cn, shs, hp, n, Fields(query))
    ELSE {postgresRound(n, <<sendErrorResponse("42601", "syntax error"), sendReadyForQuery>>,
                        "PostgresLoop", cn.authenticated, [shards |-> shs, heap |-> hp],
                        <<>>)}

\* The body of the loop of Handle on a message of type msgType with the
\* bytes data, n bytes in all.
postgresMessage(cn, auth, shs, hp, t, n, msgType, data) ==
    LET same == [shards |-> shs, heap |-> hp]
        send(out) == {postgresRound(n, out, "PostgresLoop", cn.authenticated, same, <<>>)}
    IN  IF ~cn.authenticated /\ msgType # 112
        THEN send(<<sendErrorResponse("28P01", "authentication required")>>)
        ELSE CASE msgType = 112 ->
                    IF trimRightOf(data, {0}) = auth
                    THEN {postgresRound(n, <<sendAuthenticationOk, sendReadyForQuery>>,
                                        "PostgresLoop", TRUE, same, <<>>)}
                    ELSE send(<<sendErrorResponse("28P01", "authentication failed")>>)
               [] msgType = 81 ->
                    handleQuery(cn, shs, hp, t, n,
                                TrimSpace(ToUpper(trimRightOf(data, {0}))))
               [] msgType = 88 ->
                    {postgresRound(n, <<>>, "Closed", cn.authenticated, same, <<>>)}
               [] OTHER ->
                    send(<<sendErrorResponse("08P01", "unsupported message type")>>)

\* readMessage and the body of the loop: five bytes with the type and the
\* length, then length-4 bytes.
postgresLoop(cn, auth, shs, hp, t) ==
    LET s == unread(cn)
        same == [shards |-> shs, heap |-> hp]
        length == Uint32(SubSeq(s, 2, 5)) + 1
    IN  CASE ReadFull(s, cn.fin, 5) = "block" -> {}
          [] ReadFull(s, cn.fin, 5) = "err" ->
                {postgresRound(Len(s), <<>>, "Closed", cn.authenticated, same, <<>>)}
          [] OTHER ->
                CASE ReadFull(s, cn.fin, length) = "block" -> {}
                  [] ReadFull(s, cn.fin, length) = "err" ->
                        {postgresRound(Len(s), <<>>, "Closed", cn.authenticated, same, <<>>)}
                  [] OTHER ->
                        postgresMessage(cn, auth, shs, hp, t, length, s[1],
                                        SubSeq(s, 6, length))

\* PostgresHandler.Handle on connection c: handleStartup, or one round of
\* the loop.  The messages of the round are sent one Write after the other
\* (ConnWrite), and the handler reads again when the last has returned.
PostgresHandle(c) ==
    /\ conns[c].pc \in {"Postgres", "PostgresLoop"}
    /\ conns[c].writing = <<>>
    /\ ~postgresLeftOut(conns[c])
    /\ \E o \in IF conns[c].pc = "Postgres"
                THEN handleStartup(conns[c], server.Auth, [shards |-> shards, heap |-> heap])
                ELSE postgresLoop(conns[c], server.Auth, shards, heap, now) :
          /\ conns' = [conns EXCEPT ![c] =
                          [consume(@, o.n) EXCEPT
                               !.writing = o.out,
                               !.pc = o.pc,
                               !.authenticated = o.authenticated,
                               !.ops = @ \o o.ops,
                               !.idx = o.idx,
                               !.count = 0,
                               !.table = o.table]]
          /\ shards' = o.shards
          /\ heap' = Collect(o.heap, o.shards, procs)
          /\ UNCHANGED <<maxMemory, now, procs, kv, steps, server>>

\* conn.Write of the next message of connection c: it returns when the
\* client's window has room, and blocks while the client is stalled.
ConnWrite(c) ==
    /\ conns[c].writing # <<>>
    /\ ~conns[c].stalled
    /\ conns' = [conns EXCEPT ![c] =
                    [@ EXCEPT !.out = Append(@, Head(conns[c].writing)),
                              !.writing = Tail(@)]]
    /\ UNCHANGED <<shards, maxMemory, heap, now, procs, kv, steps, server>>

\* The client stops reading, or reads again.
ClientStall(c) ==
    /\ conns' = [conns EXCEPT ![c] = [@ EXCEPT !.stalled = ~@]]
    /\ UNCHANGED <<shards, maxMemory, heap, now, procs, kv, steps, server>>

\* The rows that the callback of handleSelect sends for a shard: one for
\* each entry Iterate passes to it whose key starts with table and a colon.
selectRows(sh, hp, t, table) ==
    LET passed == SelectSeq(iteratePassed(sh, hp, t),
                            LAMBDA e : HasPrefix(hp[e].key, table \o <<58>>))
    IN  [i \in 1..Len(passed) |-> sendDataRow(hp[passed[i]].key, hp[passed[i]].value)]

\* Iterate in handleSelect, on shard idx: shard.mu.RLock(), and iter calls
\* the callback, which sends a row for each entry of the table.
PostgresRLock(c) ==
    LET cn == conns[c]
        rows == selectRows(shards[cn.idx], heap, now, cn.table)
    IN  /\ cn.pc = "PostgresIterate"
        /\ cn.writing = <<>>
        /\ cn.holds = 0
        /\ conns' = [conns EXCEPT ![c] =
                        [@ EXCEPT !.holds = cn.idx, !.writing = rows,
                                  !.count = @ + Len(rows)]]
        /\ UNCHANGED <<shards, maxMemory, heap, now, procs, kv, steps, server>>

\* Iterate in handleSelect: the callback has returned for the last entry of
\* the shard; shard.mu.RUnlock(), and the next shard, or the end of the
\* scan with CommandComplete and, back in handleQuery, ReadyForQuery.
PostgresRUnlock(c) ==
    LET cn == conns[c] IN
    /\ cn.pc = "PostgresIterate"
    /\ cn.writing = <<>>
    /\ cn.holds # 0
    /\ conns' = [conns EXCEPT ![c] =
                    IF cn.idx = Len(shards)
                    THEN [@ EXCEPT !.holds = 0, !.idx = 0, !.pc = "PostgresLoop",
                                   !.writing = << sendCommandComplete("SELECT", cn.count),
                                                  sendReadyForQuery >>]
                    ELSE [@ EXCEPT !.holds = 0, !.idx = @ + 1]]
    /\ UNCHANGED <<shards, maxMemory, heap, now, procs, kv, steps, server>>

\* shard.mu.Lock() of the shard of a key waits while a handler holds the
\* read lock of the shard.
readLocked(key) ==
    \E c \in DOMAIN conns : conns[c].holds = getShard(Len(shards), key)

\* Store by a client of the cache while handlers run: it takes the lock of
\* the shard first.
StoreUnderLock(p, key, value, opts) == ~readLocked(key) /\ DoStore(p, key, value, opts)

\* A handler holds the read lock of shard s.
rlocked(s) == \E c \in DOMAIN conns : conns[c].holds = s

\* Store, up to shard.mu.Lock(): the client has built the entry and waits
\* for the exclusive lock of the shard of key (idx).
StoreBegin(p, key, value, opts) ==
    /\ procs[p].pc = "idle"
    /\ procs' = [procs EXCEPT ![p] =
                     [pc |-> "Lock", key |-> key, entry |-> NIL, why |-> "",
                      idx |-> getShard(Len(shards), key), acc |-> 0,
                      ret |-> @.ret, calls |-> @.calls, opts |-> opts, value |-> value]]
    /\ steps' = steps + 1
    /\ UNCHANGED <<server, conns, maxMemory, shards, heap, now, kv>>

\* Store, from shard.mu.Lock() to the deferred Unlock: the lock is granted
\* when no reader holds it.
StoreLocked(p) ==
    LET c == procs[p] IN
    /\ c.pc = "Lock"
    /\ ~rlocked(c.idx)
    /\ \E o \in Store(shards[c.idx], heap, now, c.key, c.value, c.opts) :
           /\ shards' = [shards EXCEPT ![c.idx] = o.sh]
           /\ procs' = [procs EXCEPT ![p] =
                           Returned(c, Result("Store", c.key, TRUE, c.value, word64(0)))]
           /\ heap' = Collect(o.hp, shards', procs')
           /\ kv' = [kv EXCEPT ![c.key] = Written(@, c.value, expiryOf(c.opts, now))]
    /\ UNCHANGED <<server, conns, maxMemory, now, steps>>

\* Sweep on its next shard, and the Delete of a Load, while handlers run:
\* shard.mu.Lock() is granted when no reader holds the lock.
SweepShardLocked(p) ==
    procs[p].pc = "Sweep" /\ ~rlocked(procs[p].idx) /\ SweepShard(p)

LoadDeleteLocked(p) ==
    /\ procs[p].pc = "load_delete"
    /\ ~rlocked(getShard(Len(shards), procs[p].key))
    /\ LoadDelete(p)

(***************************************************************************)
(* Server.Start, Server.Stop, Server.serve and the sweeper (server.go),    *)
(* and the end of the process (runServer and main of the command).  A      *)
(* server that runs is the Config with the state of its goroutines:        *)
(* listeners are the listeners, open or closed; cancelled says that        *)
(* s.cancel() was called; wg is the counter of s.wg; start is the listener *)
(* whose accept loop Start launches next, one more when Start is in        *)
(* s.wg.Wait() and two more when it has returned; signal is where the      *)
(* goroutine that waits for SIGINT/SIGTERM is, closing the listener Stop   *)
(* closes next; serve[i] is the accept loop of listener i; sweeper is the  *)
(* goroutine of startSweeper, whose cache calls are those of client 1;     *)
(* exited says that the process has ended.                                 *)
(***************************************************************************)
Running(cfg, numListeners, autoSweep) ==
    [Auth |-> cfg.Auth, Redis |-> cfg.Redis, HTTP |-> cfg.HTTP,
     Memcache |-> cfg.Memcache, Postgres |-> cfg.Postgres,
     AutoSweep |-> autoSweep,
     listeners |-> [i \in 1..numListeners |-> "open"],
     cancelled |-> FALSE,
     wg |-> IF autoSweep THEN 1 ELSE 0,
     start |-> 1,
     signal |-> "<-sigCh",
     closing |-> 0,
     serve |-> [i \in 1..numListeners |-> "none"],
     sweeper |-> IF autoSweep THEN "select" ELSE "none",
     exited |-> FALSE]

\* What a step of the server's own goroutines leaves alone.
serverOnly == UNCHANGED <<shards, maxMemory, heap, now, procs, kv, steps, conns>>

\* SIGINT or SIGTERM arrives: <-sigCh returns.
Interrupt ==
    /\ ~server.exited
    /\ server.signal = "<-sigCh"
    /\ server' = [server EXCEPT !.signal = "cancel"]
    /\ serverOnly

\* Stop: s.cancel()
StopCancel ==
    /\ ~server.exited
    /\ server.signal = "cancel"
    /\ server' = [server EXCEPT !.cancelled = TRUE, !.signal = "Close", !.closing = 1]
    /\ serverOnly

\* Stop: listener.Close(), one listener after the other
StopClose ==
    /\ ~server.exited
    /\ server.signal = "Close"
    /\ server' = [server EXCEPT
                      !.listeners[server.closing] = "closed",
                      !.closing = @ + 1,
                      !.signal = IF server.closing = Len(server.listeners)
                                 THEN "Wait" ELSE @]
    /\ serverOnly

\* Stop: s.wg.Wait() returns
StopWait ==
    /\ ~server.exited
    /\ server.signal = "Wait"
    /\ server.wg = 0
    /\ server' = [server EXCEPT !.signal = "returned"]
    /\ serverOnly

\* Start: s.wg.Add(1); go s.serve(listener)
StartServe ==
    /\ ~server.exited
    /\ server.start <= Len(server.listeners)
    /\ server' = [server EXCEPT !.wg = @ + 1,
                                !.serve[server.start] = "Accept",
                                !.start = @ + 1]
    /\ serverOnly

\* Start: s.wg.Wait() returns, and Start returns nil
StartWait ==
    /\ ~server.exited
    /\ server.start = Len(server.listeners) + 1
    /\ server.wg = 0
    /\ server' = [server EXCEPT !.start = @ + 1]
    /\ serverOnly

\* Start has returned: runServer returns, main returns and the process
\* ends, and with it every goroutine; the connections are closed with it.
Exit ==
    /\ ~server.exited
    /\ server.start = Len(server.listeners) + 2
    /\ server' = [server EXCEPT !.exited = TRUE]
    /\ conns' = [c \in DOMAIN conns |->
                    IF conns[c].pc = "Closed" THEN conns[c]
                    ELSE [conns[c] EXCEPT !.pc = "Killed"]]
    /\ UNCHANGED <<shards, maxMemory, heap, now, procs, kv, steps>>

\* serve: listener.Accept() returns a connection whose client will send
\* stream; go s.handleConnection(conn)
Accept(i, stream) ==
    /\ ~server.exited
    /\ server.serve[i] = "Accept"
    /\ server.listeners[i] = "open"
    /\ conns' = Append(conns, Accepted(stream))
    /\ UNCHANGED <<shards, maxMemory, heap, now, procs, kv, steps, server>>

\* serve: listener.Accept() fails on the closed listener; <-s.ctx.Done()
\* is ready and the loop returns (s.wg.Done()).  While the context is not
\* cancelled the loop continues.
ServeReturn(i) ==
    /\ ~server.exited
    /\ server.serve[i] = "Accept"
    /\ server.listeners[i] = "closed"
    /\ server.cancelled
    /\ server' = [server EXCEPT !.serve[i] = "returned", !.wg = @ - 1]
    /\ serverOnly

\* The sweeper is in its select: it has no cache call under way.
sweeperInSelect ==
    /\ ~server.exited
    /\ server.sweeper = "select"
    /\ procs[1].pc = "idle"
    /\ procs[1].ret.op # "Sweep"

\* The sweeper: case <-ticker.C, and s.cache.Sweep() starts
SweeperTick == sweeperInSelect /\ BeginAll(1, "Sweep")

\* The sweeper: Sweep has returned and s.cache.SweepEvicted() starts
SweeperSweepEvicted ==
    /\ ~server.exited
    /\ server.sweeper = "select"
    /\ procs[1].ret.op = "Sweep"
    /\ BeginAll(1, "SweepEvicted")

\* The sweeper: case <-s.ctx.Done(), the goroutine returns (s.wg.Done())
SweeperReturn ==
    /\ sweeperInSelect
    /\ server.cancelled
    /\ server' = [server EXCEPT !.sweeper = "returned", !.wg = @ - 1]
    /\ serverOnly

(***************************************************************************)
(* Call sequences run from a fresh cache.  The initial states of the       *)
(* specifications below are what the program is left in by such a          *)
(* sequence, computed with the operations above.                           *)
(***************************************************************************)
StoreCall(key, value, opts) == [op |-> "Store", key |-> key, value |-> value, opts |-> opts]

DeleteCall(key) == [op |-> "Delete", key |-> key, value |-> <<>>, opts |-> NilOptions]

\* The states one call leads to from state st = [shards, maxMemory, heap, kv].
applyCall(st, call, t) ==
    LET s == getShard(Len(st.shards), call.key) IN
    IF call.op = "Store"
    THEN { [shards |-> [st.shards EXCEPT ![s] = o.sh],
            maxMemory |-> st.maxMemory,
            heap |-> o.hp,
            kv |-> [st.kv EXCEPT ![call.key] =
                       Written(@, call.value, expiryOf(call.opts, t))]]
           : o \in Store(st.shards[s], st.heap, t, call.key, call.value, call.opts) }
    ELSE LET o == Delete(st.shards[s], st.heap, call.key)
             shs == [st.shards EXCEPT ![s] = o.sh]
         IN  {[shards |-> shs,
               maxMemory |-> st.maxMemory,
               heap |-> Collect(o.hp, shs, <<>>),
               kv |-> [st.kv EXCEPT ![call.key] = Deleted(@)]]}

RECURSIVE runCalls(_, _, _)
runCalls(states, calls, t) ==
    IF calls = <<>> THEN states
    ELSE runCalls(UNION {applyCall(st, Head(calls), t) : st \in states}, Tail(calls), t)

FreshCache(numShards, limit) ==
    [shards |-> New(numShards, limit),
     maxMemory |-> limit,
     heap |-> <<>>,
     kv |-> [k \in AllKeys |-> NeverWritten]]

\* Store of keys[i], i = 1..n, each with the one-byte value <<i>>.
storeAll(keys) == [i \in 1..Len(keys) |-> StoreCall(keys[i], <<i>>, NilOptions)]

deleteAll(keys) == [i \in 1..Len(keys) |-> DeleteCall(keys[i])]

InitFrom(states, clients) ==
    /\ \E st \in states : /\ shards = st.shards
                          /\ maxMemory = st.maxMemory
                          /\ heap = st.heap
                          /\ kv = st.kv
    /\ now = 1
    /\ procs = [p \in clients |-> IdleClient(NoResult, 0)]
    /\ steps = 0
    /\ server = NoServer
    /\ conns = <<>>

(***************************************************************************)
(* SpecKV: one client calls Store, Load and Delete on a cache of two       *)
(* shards without memory limit and without TTLs.  It starts from a fresh   *)
(* cache, from a shard whose next insert grows the table, or from a shard  *)
(* whose next delete shrinks it.                                           *)
(***************************************************************************)
KVFill == << <<1>>, <<2>>, <<3>>, <<4>>, <<5>>, <<6>>, <<7>>, <<8>>, <<9>>, <<10>>,
             <<11>>, <<12>> >>

KVDrain == << <<2>>, <<4>>, <<5>>, <<6>>, <<7>>, <<8>>, <<9>>, <<10>>, <<11>>, <<12>> >>

KVWarmups ==
    { <<>>,
      storeAll(KVFill),
      storeAll([i \in 1..Len(KVFill) |-> KVFill[Len(KVFill) + 1 - i]]),
      storeAll(Append(KVFill, <<14>>)) \o deleteAll(KVDrain) }

KVKeys == { <<1>>, <<14>>, <<1, 1>>, <<2, 2>> }

KVValues == { <<1>>, <<2, 3>> }

InitKV ==
    InitFrom(UNION {runCalls({FreshCache(2, 0)}, w, 1) : w \in KVWarmups}, {1})

NextKV ==
    \/ \E k \in KVKeys, v \in KVValues :
           steps < MaxStepsKV /\ DoStore(1, k, v, NilOptions)
    \/ \E k \in KVKeys : steps < MaxStepsKV /\ DoDelete(1, k)
    \/ \E k \in KVKeys : steps < MaxStepsKV /\ LoadGet(1, k)
    \/ LoadCheckEvicted(1)
    \/ LoadCheckExpired(1)

SpecKV == InitKV /\ [][NextKV]_vars

(***************************************************************************)
(* SpecEvict: one client calls every operation of the cache on a cache of  *)
(* two shards whose limit of 120 bytes gives each shard room for two of    *)
(* the entries stored here; stored entries may carry a TTL and time        *)
(* passes.  It starts from a fresh cache, from a shard that is nearly      *)
(* full, or from a shard in which a Store has already evicted.             *)
(***************************************************************************)
EvictWarmups ==
    { <<>>,
      storeAll(<< <<1>>, <<3>>, <<13>> >>),
      storeAll(<< <<1>>, <<3>>, <<13>>, <<14>> >>) }

EvictKeys == { <<1>>, <<3>>, <<14>> }

\* The calls of the client: a plain Store and a Store with a TTL of one tick.
EvictStores == { [value |-> <<7>>, opts |-> NilOptions],
                 [value |-> <<8, 9>>, opts |-> StoreOptions(1, 0, word64(0))] }

EvictCas == { word64(0), word64(1) }

InitEvict ==
    InitFrom(UNION {runCalls({FreshCache(2, 120)}, w, 1) : w \in EvictWarmups}, {1})

NextEvict ==
    \/ \E k \in EvictKeys, c \in EvictStores :
           steps < MaxStepsEvict /\ DoStore(1, k, c.value, c.opts)
    \/ \E k \in EvictKeys : steps < MaxStepsEvict /\ DoDelete(1, k)
    \/ \E k \in EvictKeys, cas \in EvictCas :
           steps < MaxStepsEvict /\ DoCompareAndSwap(1, k, <<5>>, cas, NilOptions)
    \/ \E k \in EvictKeys : steps < MaxStepsEvict /\ DoIncrement(1, k, word64(1))
    \/ \E k \in EvictKeys : steps < MaxStepsEvict /\ LoadGet(1, k)
    \/ LoadCheckEvicted(1)
    \/ LoadCheckExpired(1)
    \/ LoadDelete(1)
    \/ \E op \in {"Sweep", "SweepEvicted", "Clear"} :
           steps < MaxStepsEvict /\ BeginAll(1, op)
    \/ SweepShard(1)
    \/ SweepEvictedShard(1)
    \/ ClearShard(1)
    \/ now < MaxTimeEvict /\ Tick

SpecEvict == InitEvict /\ [][NextEvict]_vars

(***************************************************************************)
(* SpecLimit: one client calls Store on caches of one or two shards with   *)
(* several memory limits: limits that give every shard room for two        *)
(* entries, a limit whose share per shard is smaller than one entry, and   *)
(* a limit smaller than the number of shards.                              *)
(***************************************************************************)
LimitConfigs ==
    { [numShards |-> 1, limit |-> 60],
      [numShards |-> 2, limit |-> 120],
      [numShards |-> 2, limit |-> 61],
      [numShards |-> 2, limit |-> 40],
      [numShards |-> 2, limit |-> 1] }

LimitKeys == { <<1>>, <<3>>, <<14>>, <<2, 2>> }

LimitValues == { <<1>>, <<2, 3>> }

InitLimit == InitFrom({FreshCache(c.numShards, c.limit) : c \in LimitConfigs}, {1})

NextLimit ==
    \E k \in LimitKeys, v \in LimitValues :
        steps < MaxStepsLimit /\ DoStore(1, k, v, NilOptions)

SpecLimit == InitLimit /\ [][NextLimit]_vars

(***************************************************************************)
(* SpecConc: two clients call Store, Load and Delete on one key            *)
(* concurrently, on a cache without memory limit; a Store may carry a TTL  *)
(* of one tick and time passes.  Each client writes values of its own.     *)
(***************************************************************************)
ConcClients == {1, 2}

ConcKey == <<1>>

ConcWarmups == { <<>>, storeAll(<< <<1, 1>>, <<1>> >>) }

ConcOptions == { NilOptions, StoreOptions(1, 0, word64(0)) }

InitConc ==
    InitFrom(UNION {runCalls({FreshCache(2, 0)}, w, 1) : w \in ConcWarmups}, ConcClients)

NextConc ==
    \/ \E p \in ConcClients, opts \in ConcOptions :
           steps < MaxStepsConc /\ DoStore(p, ConcKey, <<p, opts.TTL>>, opts)
    \/ \E p \in ConcClients : steps < MaxStepsConc /\ DoDelete(p, ConcKey)
    \/ \E p \in ConcClients : steps < MaxStepsConc /\ LoadGet(p, ConcKey)
    \/ \E p \in ConcClients : LoadCheckEvicted(p)
    \/ \E p \in ConcClients : LoadCheckExpired(p)
    \/ \E p \in ConcClients : LoadDelete(p)
    \/ now < MaxTimeConc /\ Tick

SpecConc == InitConc /\ [][NextConc]_vars

(***************************************************************************)
(* SpecCAS: two clients call CompareAndSwap and Load concurrently on a     *)
(* key that is stored and on a key that is not, in a cache of one shard    *)
(* without memory limit or with room for the two stored entries only.      *)
(* Client 1 swaps in a short value, client 2 a long one with flags and a   *)
(* TTL.                                                                    *)
(***************************************************************************)
CasClients == {1, 2}

CasKeys == { <<1>>, <<3>> }

CasExpected == { word64(0), word64(1) }

CasValue(p) == IF p = 1 THEN <<1>> ELSE <<2, 2, 2, 2, 2, 2>>

CasOptions(p) == IF p = 1 THEN NilOptions ELSE StoreOptions(1, 1, word64(0))

CasWarmup == storeAll(<< <<1>>, <<14>> >>)

InitCAS ==
    InitFrom(UNION {runCalls({FreshCache(1, limit)}, CasWarmup, 1) : limit \in {0, 56}},
             CasClients)

NextCAS ==
    \/ \E p \in CasClients, k \in CasKeys, cas \in CasExpected :
           /\ steps < MaxStepsCAS
           /\ DoCompareAndSwap(p, k, CasValue(p), cas, CasOptions(p))
    \/ \E p \in CasClients, k \in CasKeys : steps < MaxStepsCAS /\ LoadGet(p, k)
    \/ \E p \in CasClients : LoadCheckEvicted(p)
    \/ \E p \in CasClients : LoadCheckExpired(p)
    \/ \E p \in CasClients : LoadDelete(p)

SpecCAS == InitCAS /\ [][NextCAS]_vars

(***************************************************************************)
(* SpecVersions: one client calls Store (with an initial cas of 0 or of    *)
(* 2^64 - 1), CompareAndSwap, Increment, Delete and Load on one key of a   *)
(* cache without memory limit, starting with the key absent or stored.     *)
(***************************************************************************)
VersionsKey == <<1>>

VersionsWarmups == { storeAll(<< <<1, 1>> >>), storeAll(<< <<1, 1>>, <<1>> >>) }

VersionsInitialCas == { word64(0), MaxUint64 }

VersionsExpected == { word64(0), word64(1), MaxUint64 }

InitVersions ==
    InitFrom(UNION {runCalls({FreshCache(1, 0)}, w, 1) : w \in VersionsWarmups}, {1})

NextVersions ==
    \/ \E cas \in VersionsInitialCas :
           /\ steps < MaxStepsVersions
           /\ DoStore(1, VersionsKey, <<7>>, StoreOptions(0, 0, cas))
    \/ \E cas \in VersionsExpected :
           /\ steps < MaxStepsVersions
           /\ DoCompareAndSwap(1, VersionsKey, <<5>>, cas, NilOptions)
    \/ steps < MaxStepsVersions /\ DoIncrement(1, VersionsKey, word64(1))
    \/ steps < MaxStepsVersions /\ DoDelete(1, VersionsKey)
    \/ steps < MaxStepsVersions /\ LoadGet(1, VersionsKey)
    \/ LoadCheckEvicted(1)
    \/ LoadCheckExpired(1)

SpecVersions == InitVersions /\ [][NextVersions]_vars

(***************************************************************************)
(* SpecIncrement: one client calls Increment with positive, negative and   *)
(* large deltas, Store (values of one byte and of eight bytes), Delete and *)
(* Load on one key of a cache without memory limit, starting with the key  *)
(* absent.                                                                 *)
(***************************************************************************)
IncrementKey == <<1>>

\* 5, 3, -2 and 2^63 - 1.
IncrementDeltas ==
    { word64(5), word64(3), word64(-2), <<LimbBase - 1, LimbBase - 1, LimbBase - 1, 32767>> }

\* One byte, and the eight bytes of -256.
IncrementValues == { <<1>>, <<255, 255, 255, 255, 255, 255, 255, 0>> }

IncrementWarmups == { <<>>, storeAll(<< <<1, 1>> >>) }

InitIncrement ==
    InitFrom(UNION {runCalls({FreshCache(2, 0)}, w, 1) : w \in IncrementWarmups}, {1})

NextIncrement ==
    \/ \E delta \in IncrementDeltas :
           steps < MaxStepsIncrement /\ DoIncrement(1, IncrementKey, delta)
    \/ \E v \in IncrementValues :
           steps < MaxStepsIncrement /\ DoStore(1, IncrementKey, v, NilOptions)
    \/ steps < MaxStepsIncrement /\ DoDelete(1, IncrementKey)
    \/ steps < MaxStepsIncrement /\ LoadGet(1, IncrementKey)
    \/ LoadCheckEvicted(1)
    \/ LoadCheckExpired(1)

SpecIncrement == InitIncrement /\ [][NextIncrement]_vars

(***************************************************************************)
(* SpecTTL: one client calls Store (without TTL or with a TTL of one       *)
(* tick), Load, Delete and Sweep on a cache of two shards without memory   *)
(* limit, and time passes.  It starts from a fresh cache or from shards    *)
(* that hold entries with and without TTL.                                 *)
(***************************************************************************)
TTLKeys == { <<1>>, <<13>> }

TTLOptions == { NilOptions, StoreOptions(1, 0, word64(0)) }

TTLWarmups ==
    { <<>>,
      << StoreCall(<<1, 1>>, <<9>>, StoreOptions(1, 0, word64(0))),
         StoreCall(<<1>>, <<8>>, StoreOptions(1, 0, word64(0))),
         StoreCall(<<3>>, <<7>>, NilOptions),
         StoreCall(<<13>>, <<6>>, StoreOptions(2, 0, word64(0))) >> }

InitTTL ==
    InitFrom(UNION {runCalls({FreshCache(2, 0)}, w, 1) : w \in TTLWarmups}, {1})

NextTTL ==
    \/ \E k \in TTLKeys, opts \in TTLOptions :
           steps < MaxStepsTTL /\ DoStore(1, k, <<5, opts.TTL>>, opts)
    \/ \E k \in TTLKeys : steps < MaxStepsTTL /\ DoDelete(1, k)
    \/ \E k \in TTLKeys : steps < MaxStepsTTL /\ LoadGet(1, k)
    \/ LoadCheckEvicted(1)
    \/ LoadCheckExpired(1)
    \/ LoadDelete(1)
    \/ steps < MaxStepsTTL /\ BeginAll(1, "Sweep")
    \/ SweepShard(1)
    \/ now < MaxTimeTTL /\ Tick

SpecTTL == InitTTL /\ [][NextTTL]_vars

(***************************************************************************)
(* SpecPressure: one client calls Store, Load and Delete on three keys of  *)
(* a cache of one shard whose limit of 60 bytes has room for two of the    *)
(* entries, so that a third Store, or a Store over a stored key, evicts.   *)
(***************************************************************************)
PressureKeys == { <<1>>, <<3>>, <<14>> }

PressureWarmups == { <<>>, storeAll(<< <<1>>, <<3>> >>) }

InitPressure ==
    InitFrom(UNION {runCalls({FreshCache(1, 60)}, w, 1) : w \in PressureWarmups}, {1})

NextPressure ==
    \/ \E k \in PressureKeys :
           steps < MaxStepsPressure /\ DoStore(1, k, <<7>>, NilOptions)
    \/ \E k \in PressureKeys : steps < MaxStepsPressure /\ DoDelete(1, k)
    \/ \E k \in PressureKeys : steps < MaxStepsPressure /\ LoadGet(1, k)
    \/ LoadCheckEvicted(1)
    \/ LoadCheckExpired(1)
    \/ LoadDelete(1)

SpecPressure == InitPressure /\ [][NextPressure]_vars

(***************************************************************************)
(* SpecOperations: one client calls the Store of                           *)
(* internal/cache/operations.go, and Load, on a cache of two shards built  *)
(* without memory limit.                                                   *)
(***************************************************************************)
OperationsKeys == { <<1>>, <<3>>, <<14>>, <<13>> }

OperationsValues == { <<1>>, <<2, 3>> }

InitOperations == InitFrom({FreshCache(2, 0)}, {1})

NextOperations ==
    \/ \E k \in OperationsKeys, v \in OperationsValues :
           steps < MaxStepsOperations /\ DoStoreOperations(1, k, v, NilOptions)
    \/ \E k \in OperationsKeys : steps < MaxStepsOperations /\ LoadGet(1, k)
    \/ LoadCheckEvicted(1)
    \/ LoadCheckExpired(1)

SpecOperations == InitOperations /\ [][NextOperations]_vars

\* The cache of a server: one shard, no memory limit, nothing stored.
InitServer(cfgs, connections) ==
    /\ \E st \in {FreshCache(1, 0)} : /\ shards = st.shards
                                       /\ maxMemory = st.maxMemory
                                       /\ heap = st.heap
                                       /\ kv = st.kv
    /\ now = 1
    /\ procs = <<>>
    /\ steps = 0
    /\ server \in cfgs
    /\ conns \in connections

(***************************************************************************)
(* SpecClassify: the server with every protocol enabled has accepted one   *)
(* connection whose client has sent a stream of 0 to MaxStreamClassify     *)
(* bytes, and has closed or not; handleConnection detects the protocol.    *)
(* The streams are the words Detect looks for and some others, followed by *)
(* bytes that put 00 03 00 00 at one place or another, cut at every        *)
(* length.                                                                 *)
(***************************************************************************)
ClassifyWords ==
    {<<b>> : b \in respMarkers} \cup httpMethods \cup memcacheCommands \cup
    { <<>>, <<0, 0, 0, 8>>,
      <<71, 69, 84>>,           \* "GET"
      <<71, 101, 116, 32>>,     \* "Get "
      <<80, 73, 78, 71>> }      \* "PING"

ClassifyTails ==
    { <<0, 3, 0, 0, 107, 13, 10, 107, 13, 10>>,
      <<0, 0, 0, 0, 3, 0, 0, 107, 13, 10>>,
      <<107, 32, 13, 10, 107, 32, 13, 10, 107, 32>> }

ClassifyStreams ==
    { Take(w \o t, n) : w \in ClassifyWords, t \in ClassifyTails,
                        n \in 0..MaxStreamClassify }

Arrived(stream, fin) ==
    [Accepted(<<>>) EXCEPT !.sock = stream, !.sent = stream, !.fin = fin]

InitClassify ==
    InitServer({Config(<<>>, TRUE, TRUE, TRUE, TRUE)},
               { <<Arrived(s, fin)>> : s \in ClassifyStreams, fin \in {"open", "EOF"} })

NextClassify ==
    \/ PeekFill(1)
    \/ handleConnection(1)

SpecClassify == InitClassify /\ [][NextClassify]_vars

(***************************************************************************)
(* SpecDetect: one connection whose client sends a stream in pieces of any *)
(* size and closes it, or breaks it, at any time; handleConnection detects *)
(* the protocol and the handler reads through its own bufio.Reader.        *)
(***************************************************************************)
DetectStreams ==
    { Take(s, n) :
        s \in { <<42, 49, 13, 10, 36, 52, 13, 10, 80, 73, 78>>,       \* "*1\r\n$4\r\nPIN"
                <<103, 101, 116, 32, 107, 13, 10, 113, 117, 105, 116>>, \* "get k\r\nquit"
                <<0, 0, 0, 8, 0, 3, 0, 0, 81, 0, 0>> },
        n \in {3, MaxStreamDetect} }

InitDetect ==
    InitServer({Config(<<>>, TRUE, TRUE, TRUE, TRUE)},
               { <<Accepted(s)>> : s \in DetectStreams })

NextDetect ==
    \/ \E n \in 1..MaxStreamDetect : ClientSend(1, n)
    \/ \E how \in {"EOF", "reset"} : ClientClose(1, how)
    \/ PeekFill(1)
    \/ handleConnection(1)
    \/ HandlerFill(1)
    \/ \E n \in 1..BufSize : HandlerTake(1, n)
    \/ HandlerEnd(1)

SpecDetect == InitDetect /\ [][NextDetect]_vars

(***************************************************************************)
(* What clients write: a RESP array of bulk strings, and scripts of up to  *)
(* k messages.                                                             *)
(***************************************************************************)
CRLF == <<13, 10>>

RECURSIVE itoa(_)
itoa(n) == IF n < 10 THEN <<48 + n>> ELSE itoa(n \div 10) \o <<48 + (n % 10)>>

RECURSIVE bulkStrings(_)
bulkStrings(args) ==
    IF args = <<>> THEN <<>>
    ELSE <<36>> \o itoa(Len(Head(args))) \o CRLF \o Head(args) \o CRLF
         \o bulkStrings(Tail(args))

respArray(args) == <<42>> \o itoa(Len(args)) \o CRLF \o bulkStrings(args)

RECURSIVE Scripts(_, _)
Scripts(messages, k) ==
    IF k = 0 THEN {<<>>}
    ELSE Scripts(messages, k - 1) \cup
         {s \o m : s \in Scripts(messages, k - 1), m \in messages}

(***************************************************************************)
(* SpecSession: a server that speaks RESP and has a password, and two      *)
(* connections.  The client of the first sends up to MaxScriptSession  *)
(* commands, the client of the second a SET; each sends its script at once *)
(* or its first bytes first, and closes when it likes.                     *)
(***************************************************************************)
SessionPassword == <<112, 119>>     \* "pw"

SessionMessages ==
    { respArray(<<AUTH, SessionPassword>>),
      <<97, 117, 116, 104, 32, 112, 13, 10>>,           \* "auth p\r\n"
      respArray(<<PING>>),
      respArray(<<SET, <<1>>, <<7>>>>),
      respArray(<<GET, <<1>>>>) }

InitSession ==
    InitServer({Config(SessionPassword, TRUE, FALSE, FALSE, FALSE)},
               { <<Accepted(s), Accepted(respArray(<<SET, <<1>>, <<8>>>>))>>
                   : s \in Scripts(SessionMessages, MaxScriptSession) })

NextSession ==
    \E c \in DOMAIN conns :
        \/ \E n \in {9, Len(conns[c].todo)} : ClientSend(c, n)
        \/ ClientClose(c, "EOF")
        \/ PeekFill(c)
        \/ handleConnection(c)
        \/ RedisHandle(c)

SpecSession == InitSession /\ [][NextSession]_vars

(***************************************************************************)
(* SpecRESP: a server that speaks RESP, without password, and one          *)
(* connection whose client sends up to MaxScriptRESP messages: commands,   *)
(* commands with a word missing or with a word that is no number, and      *)
(* arrays whose framing is broken.                                         *)
(***************************************************************************)
RESPMessages ==
    { respArray(<<PING>>),
      respArray(<<SET, <<1>>, <<7>>>>),
      respArray(<<GET>>),
      respArray(<<INCRBY, <<1>>, <<50>>>>),             \* INCRBY k 2
      respArray(<<INCRBY, <<1>>, <<120>>>>),            \* INCRBY k x
      <<42, 49, 13, 10, 80, 73, 78, 71, 13, 10>>,       \* "*1\r\nPING\r\n"
      <<42, 120, 13, 10, 80, 73, 78, 71, 13, 10>>,      \* "*x\r\nPING\r\n"
      <<42, 45, 49, 13, 10, 80, 73, 78, 71, 13, 10>> }  \* "*-1\r\nPING\r\n"

InitRESP ==
    InitServer({Config(<<>>, TRUE, FALSE, FALSE, FALSE)},
               { <<Accepted(s)>> : s \in Scripts(RESPMessages, MaxScriptRESP) })

NextRESP ==
    \/ \E n \in {9, Len(conns[1].todo)} : ClientSend(1, n)
    \/ \E how \in {"EOF", "reset"} : ClientClose(1, how)
    \/ PeekFill(1)
    \/ handleConnection(1)
    \/ RedisHandle(1)

SpecRESP == InitRESP /\ [][NextRESP]_vars

(***************************************************************************)
(* SpecAuth: a server with a password that speaks RESP and Memcache, and   *)
(* one connection whose client sends up to MaxScriptAuth messages of RESP, *)
(* of Memcache or of HTTP.                                                 *)
(***************************************************************************)
AuthRESP ==
    { respArray(<<AUTH, SessionPassword>>),
      respArray(<<SET, <<1>>, <<7>>>>),
      respArray(<<GET, <<1>>>>) }

\* "set k 0 0 1\r\nv\r\n", "get k\r\n", "delete k\r\n", "flush_all\r\n"
AuthMemcache ==
    { <<115, 101, 116, 32, 1, 32, 48, 32, 48, 32, 49, 13, 10, 7, 13, 10>>,
      <<103, 101, 116, 32, 1, 13, 10>>,
      <<100, 101, 108, 101, 116, 101, 32, 1, 13, 10>>,
      <<102, 108, 117, 115, 104, 95, 97, 108, 108, 13, 10>> }

\* "GET /k HTTP/1.1\r\n\r\n"
AuthHTTP ==
    { <<71, 69, 84, 32, 47, 1, 32, 72, 84, 84, 80, 47, 49, 46, 49, 13, 10, 13, 10>> }

InitAuth ==
    InitServer({Config(SessionPassword, TRUE, FALSE, TRUE, FALSE)},
               { <<Accepted(s)>> : s \in Scripts(AuthRESP, MaxScriptAuth) \cup
                                        Scripts(AuthMemcache, MaxScriptAuth) \cup
                                        Scripts(AuthHTTP, MaxScriptAuth) })

NextAuth ==
    \/ \E n \in {9, Len(conns[1].todo)} : ClientSend(1, n)
    \/ \E how \in {"EOF", "reset"} : ClientClose(1, how)
    \/ PeekFill(1)
    \/ handleConnection(1)
    \/ RedisHandle(1)
    \/ MemcacheHandle(1)

SpecAuth == InitAuth /\ [][NextAuth]_vars

(***************************************************************************)
(* SpecReject: a server with a password that speaks RESP, HTTP and         *)
(* Postgres, and one connection whose client sends up to MaxScriptReject   *)
(* requests of one of the protocols, with and without the password.        *)
(***************************************************************************)
RejectRESP ==
    { respArray(<<SET, <<1>>, <<7>>>>),
      respArray(<<AUTH, <<120>>>>),                     \* AUTH x
      respArray(<<AUTH, SessionPassword>>),
      respArray(<<GET, <<1>>>>) }

RejectHTTP ==
    {
      \* PUT /k, body v, no token
      <<80, 85, 84, 32, 47, 1, 32, 72, 84, 84, 80, 47, 49, 46, 49, 13, 10, 67, 111,
        110, 116, 101, 110, 116, 45, 76, 101, 110, 103, 116, 104, 58, 32, 49, 13, 10,
        13, 10, 7>>,
      \* DELETE /k, no token
      <<68, 69, 76, 69, 84, 69, 32, 47, 1, 32, 72, 84, 84, 80, 47, 49, 46, 49, 13, 10,
        13, 10>>,
      \* PUT /k, body v, Bearer pw
      <<80, 85, 84, 32, 47, 1, 32, 72, 84, 84, 80, 47, 49, 46, 49, 13, 10, 65, 117,
        116, 104, 111, 114, 105, 122, 97, 116, 105, 111, 110, 58, 32, 66, 101, 97, 114,
        101, 114, 32, 112, 119, 13, 10, 67, 111, 110, 116, 101, 110, 116, 45, 76, 101,
        110, 103, 116, 104, 58, 32, 49, 13, 10, 13, 10, 7>>,
      \* GET /k, Bearer x
      <<71, 69, 84, 32, 47, 1, 32, 72, 84, 84, 80, 47, 49, 46, 49, 13, 10, 65, 117,
        116, 104, 111, 114, 105, 122, 97, 116, 105, 111, 110, 58, 32, 66, 101, 97, 114,
        101, 114, 32, 120, 13, 10, 13, 10>> }

\* A message of the Postgres protocol: the type, the length of what follows
\* it, and the data with its final 0.
pgMessage(msgType, data) == <<msgType, 0, 0, 0, Len(data) + 5>> \o data \o <<0>>

\* The startup packet of protocol 3.0 without parameters.
pgStartup == <<0, 0, 0, 8, 0, 3, 0, 0>>

RejectPostgres ==
    { \* Q "insert into t values ('k','v')"
      pgMessage(81, <<105, 110, 115, 101, 114, 116, 32, 105, 110, 116, 111, 32, 116, 32,
                      118, 97, 108, 117, 101, 115, 32, 40, 39, 107, 39, 44, 39, 118, 39,
                      41>>),
      \* Q "select * from t where key = 'k'"
      pgMessage(81, <<115, 101, 108, 101, 99, 116, 32, 42, 32, 102, 114, 111, 109, 32,
                      116, 32, 119, 104, 101, 114, 101, 32, 107, 101, 121, 32, 61, 32,
                      39, 107, 39>>),
      pgMessage(112, <<120>>),                          \* p "x"
      pgMessage(112, SessionPassword) }

InitReject ==
    InitServer({Config(SessionPassword, TRUE, TRUE, FALSE, TRUE)},
               { <<Accepted(s)>> :
                   s \in Scripts(RejectRESP, MaxScriptReject) \cup
                         Scripts(RejectHTTP, MaxScriptReject) \cup
                         {pgStartup \o m : m \in Scripts(RejectPostgres, MaxScriptReject)} })

NextReject ==
    \/ ClientSend(1, Len(conns[1].todo))
    \/ ClientClose(1, "EOF")
    \/ PeekFill(1)
    \/ handleConnection(1)
    \/ RedisHandle(1)
    \/ HTTPHandle(1)
    \/ PostgresHandle(1)
    \/ ConnWrite(1)

SpecReject == InitReject /\ [][NextReject]_vars

(***************************************************************************)
(* SpecStall: a server without password that speaks Postgres, one          *)
(* connection whose client sends up to MaxScriptStall queries and stops    *)
(* reading when it likes, and one client of the cache that stores keys of  *)
(* the table and another key, up to MaxStepsStall times.                   *)
(***************************************************************************)
StallKeys == { <<84, 58, 75>>, <<84, 58, 76>>, <<1>> }         \* "T:K", "T:L", a key of no table

StallWarmups ==
    { <<>>, storeAll(<< <<84, 58, 75>> >>), storeAll(<< <<84, 58, 75>>, <<84, 58, 76>> >>),
      storeAll(<< <<84, 58, 75>>, <<1>> >>) }

StallPostgres ==
    { \* Q "select * from t"
      pgMessage(81, <<115, 101, 108, 101, 99, 116, 32, 42, 32, 102, 114, 111, 109, 32,
                      116>>),
      \* Q "select * from t where key = 'k'"
      pgMessage(81, <<115, 101, 108, 101, 99, 116, 32, 42, 32, 102, 114, 111, 109, 32,
                      116, 32, 119, 104, 101, 114, 101, 32, 107, 101, 121, 32, 61, 32,
                      39, 107, 39>>),
      \* Q "insert into t values ('k','v')"
      pgMessage(81, <<105, 110, 115, 101, 114, 116, 32, 105, 110, 116, 111, 32, 116, 32,
                      118, 97, 108, 117, 101, 115, 32, 40, 39, 107, 39, 44, 39, 118, 39,
                      41>>),
      \* Q "delete from t where key = 'k'"
      pgMessage(81, <<100, 101, 108, 101, 116, 101, 32, 102, 114, 111, 109, 32, 116, 32,
                      119, 104, 101, 114, 101, 32, 107, 101, 121, 32, 61, 32, 39, 107,
                      39>>) }

InitStall ==
    /\ \E st \in UNION {runCalls({FreshCache(1, 0), FreshCache(2, 0)}, w, 1)
                            : w \in StallWarmups} :
          /\ shards = st.shards
          /\ maxMemory = st.maxMemory
          /\ heap = st.heap
          /\ kv = st.kv
    /\ now = 1
    /\ procs = [p \in {1} |-> IdleClient(NoResult, 0)]
    /\ steps = 0
    /\ server = Config(<<>>, FALSE, FALSE, FALSE, TRUE)
    /\ conns \in { <<Accepted(pgStartup \o m)>> : m \in Scripts(StallPostgres, MaxScriptStall) }

NextStall ==
    \/ ClientSend(1, Len(conns[1].todo))
    \/ ClientStall(1)
    \/ PeekFill(1)
    \/ handleConnection(1)
    \/ PostgresHandle(1)
    \/ ConnWrite(1)
    \/ PostgresRLock(1)
    \/ PostgresRUnlock(1)
    \/ \E k \in StallKeys :
           steps < MaxStepsStall /\ StoreUnderLock(1, k, <<7>>, NilOptions)

SpecStall == InitStall /\ [][NextStall]_vars

(***************************************************************************)
(* SpecStale: one client calls Increment, CompareAndSwap and Load, up to   *)
(* MaxStepsStale times, on a cache of one shard that holds two counters,   *)
(* one of them with a TTL of one tick, while time passes.  The cache has   *)
(* no memory limit, or a limit with room for the two entries only, so that *)
(* an Increment of a third key evicts.                                     *)
(***************************************************************************)
StaleKeys == { <<1>>, <<3>>, <<14>> }

StaleWarmup ==
    << StoreCall(<<1>>, bigEndian(word64(5)), StoreOptions(1, 0, word64(0))),
       StoreCall(<<3>>, bigEndian(word64(5)), NilOptions) >>

InitStale ==
    InitFrom(UNION {runCalls({FreshCache(1, limit)}, StaleWarmup, 1) : limit \in {0, 70}},
             {1})

NextStale ==
    \/ \E k \in StaleKeys :
           steps < MaxStepsStale /\ DoIncrement(1, k, word64(3))
    \/ \E k \in StaleKeys, cas \in CasExpected :
           steps < MaxStepsStale /\ DoCompareAndSwap(1, k, <<7>>, cas, NilOptions)
    \/ \E k \in StaleKeys : steps < MaxStepsStale /\ LoadGet(1, k)
    \/ LoadCheckEvicted(1)
    \/ LoadCheckExpired(1)
    \/ LoadDelete(1)
    \/ now < MaxTimeStale /\ Tick

SpecStale == InitStale /\ [][NextStale]_vars

(***************************************************************************)
(* SpecHostile: a server that speaks RESP and Postgres, without password,  *)
(* and two connections.  The client of the first sends a RESP array with a *)
(* negative count, a bulk string with a negative size, or a Postgres       *)
(* startup packet whose length field is below 8; the client of the second  *)
(* sends well-formed requests.                                             *)
(***************************************************************************)
HostileStreams ==
    { <<42, 45, 49, 13, 10>> \o respArray(<<PING>>),            \* "*-1\r\n" ...
      <<42, 49, 13, 10, 36, 45, 53, 13, 10>>,                   \* "*1\r\n$-5\r\n"
      <<0, 0, 0, 4, 0, 3, 0, 0>> }                              \* length 4, version 3.0

HonestStreams ==
    { respArray(<<PING>>) \o respArray(<<PING>>),
      pgStartup \o pgMessage(88, <<>>) }

InitHostile ==
    InitServer({Config(<<>>, TRUE, FALSE, FALSE, TRUE)},
               { <<Accepted(a), Accepted(b)>> : a \in HostileStreams, b \in HonestStreams })

NextHostile ==
    \E c \in {1, 2} :
        \/ \E n \in {MaxChunkHostile, Len(conns[c].todo)} : ClientSend(c, n)
        \/ ClientClose(c, "EOF")
        \/ PeekFill(c)
        \/ handleConnection(c)
        \/ RedisHandle(c)
        \/ PostgresHandle(c)
        \/ ConnWrite(c)

SpecHostile == InitHostile /\ [][NextHostile]_vars

(***************************************************************************)
(* SpecWait: a server that speaks RESP and Memcache and one connection     *)
(* whose client sends one complete request, in pieces of any size, and     *)
(* then waits for the reply with the connection open.  The goroutine of    *)
(* the connection takes a step whenever it can.                            *)
(***************************************************************************)
WaitStreams ==
    { PING \o CRLF,                                     \* "PING\r\n", 6 bytes
      <<103, 101, 116, 32, 1>> \o CRLF,                 \* "get k\r\n", 7 bytes
      <<103, 101, 116, 32, 1, 1>> \o CRLF,              \* "get kk\r\n", 8 bytes
      respArray(<<PING>>) }                             \* 14 bytes

InitWait ==
    InitServer({Config(<<>>, TRUE, FALSE, TRUE, FALSE)},
               { <<Accepted(s)>> : s \in WaitStreams })

NextWait ==
    \/ \E n \in 1..MaxStreamWait : ClientSend(1, n)
    \/ PeekFill(1)
    \/ handleConnection(1)
    \/ RedisHandle(1)
    \/ MemcacheHandle(1)

\* The handler of connection c can run a round of its loop.
handlerEnabled(c) ==
    \/ conns[c].pc = "Redis"
           /\ redisRound(conns[c], server.Auth, shards, heap, now) # {}
    \/ conns[c].pc = "Memcache"
           /\ memcacheRound(conns[c], shards, heap, now) # {}

\* Weak fairness of the Peek and of Detect, and of the rounds of the
\* handlers, with handlerEnabled written out for ENABLED.
SpecWait ==
    /\ InitWait
    /\ [][NextWait]_vars
    /\ WF_vars(PeekFill(1))
    /\ WF_vars(handleConnection(1))
    /\ ([]<>(~handlerEnabled(1)) \/ []<><<RedisHandle(1) \/ MemcacheHandle(1)>>_vars)

(***************************************************************************)
(* SpecConditional: a server without password that speaks RESP and two     *)
(* connections.  Each client sends up to MaxScriptConditional commands on  *)
(* one key: SET with NX or with XX and a value of its own, DEL or GET.     *)
(* The cache starts empty or with the key stored.                          *)
(***************************************************************************)
ConditionalRESP(c) ==
    { respArray(<<SET, <<1>>, <<48 + c>>, <<78, 88>>>>),
      respArray(<<SET, <<1>>, <<48 + c>>, <<88, 88>>>>),
      respArray(<<DEL, <<1>>>>),
      respArray(<<GET, <<1>>>>) }

InitConditional ==
    /\ \E st \in runCalls({FreshCache(1, 0)}, <<>>, 1)
                     \cup runCalls({FreshCache(1, 0)}, storeAll(<< <<1>> >>), 1) :
          /\ shards = st.shards
          /\ maxMemory = st.maxMemory
          /\ heap = st.heap
          /\ kv = st.kv
    /\ now = 1
    /\ procs = <<>>
    /\ steps = 0
    /\ server = Config(<<>>, TRUE, FALSE, FALSE, FALSE)
    /\ conns \in { <<Accepted(a), Accepted(b)>> :
                       a \in Scripts(ConditionalRESP(1), MaxScriptConditional) \ {<<>>},
                       b \in Scripts(ConditionalRESP(2), MaxScriptConditional) \ {<<>>} }

NextConditional ==
    \E c \in {1, 2} :
        \/ ClientSend(c, Len(conns[c].todo))
        \/ PeekFill(c)
        \/ handleConnection(c)
        \/ RedisHandle(c)
        \/ RedisSetLoad(c)
        \/ RedisSetStore(c)

SpecConditional == InitConditional /\ [][NextConditional]_vars

(***************************************************************************)
(* SpecLocks: the locks of the shards.  A server that speaks Postgres has  *)
(* one connection whose client asks for the rows of a table and stops      *)
(* reading when it likes, while a client of the cache calls Store, Load    *)
(* and Sweep, up to MaxStepsLocks times, on a cache of two shards that     *)
(* holds two keys of the table, one of them expired.  The client of the    *)
(* cache, once inside a call, takes a step whenever it can; a Write to a    *)
(* client that reads again and again proceeds, and so does the RUnlock     *)
(* that follows the last row.                                              *)
(* Nothing is assumed of the client of the connection.                     *)
(***************************************************************************)
LocksKeys == { <<84, 58, 75>>, <<1>> }

LocksWarmups ==
    { << StoreCall(<<84, 58, 75>>, <<7>>, NilOptions),
         StoreCall(<<84, 58, 76>>, <<7>>, StoreOptions(1, 0, word64(0))) >> }

\* Q "select * from t"
LocksPostgres ==
    pgStartup \o pgMessage(81, <<115, 101, 108, 101, 99, 116, 32, 42, 32, 102, 114, 111,
                                 109, 32, 116>>)

InitLocks ==
    /\ \E st \in UNION {runCalls({FreshCache(2, 0)}, w, 0) : w \in LocksWarmups} :
          /\ shards = st.shards
          /\ maxMemory = st.maxMemory
          /\ heap = st.heap
          /\ kv = st.kv
    /\ now \in {1, 3}
    /\ procs = [p \in {1} |-> IdleClient(NoResult, 0)]
    /\ steps = 0
    /\ server = Config(<<>>, FALSE, FALSE, FALSE, TRUE)
    /\ conns = <<Accepted(LocksPostgres)>>

\* The steps of the goroutine of the connection.
LocksHandler ==
    \/ PeekFill(1)
    \/ handleConnection(1)
    \/ PostgresHandle(1)
    \/ ConnWrite(1)
    \/ PostgresRLock(1)
    \/ PostgresRUnlock(1)

\* The steps of the client of the cache inside a call.
LocksCaller ==
    \/ StoreLocked(1)
    \/ LoadCheckEvicted(1)
    \/ LoadCheckExpired(1)
    \/ LoadDeleteLocked(1)
    \/ SweepShardLocked(1)

\* The calls that begin, and the client of the connection.
LocksCalls ==
    \/ \E k \in LocksKeys : steps < MaxStepsLocks /\ StoreBegin(1, k, <<8>>, NilOptions)
    \/ \E k \in {<<84, 58, 76>>} : steps < MaxStepsLocks /\ LoadGet(1, k)
    \/ steps < MaxStepsLocks /\ BeginAll(1, "Sweep")
    \/ ClientSend(1, Len(conns[1].todo))

NextLocks ==
    \/ LocksHandler
    \/ LocksCaller
    \/ LocksCalls
    \/ ClientStall(1)

\* The client of the cache can take a step inside its call: it is between
\* the steps of a Load, or it waits for a lock that no reader holds.
callerEnabled(p) ==
    \/ procs[p].pc \in {"load_got", "load_live"}
    \/ procs[p].pc \in {"Lock", "Sweep"} /\ ~rlocked(procs[p].idx)
    \/ procs[p].pc = "load_delete" /\ ~rlocked(getShard(Len(shards), procs[p].key))

\* Weak fairness of the client of the cache, with callerEnabled written
\* out for ENABLED <<LocksCaller>>_vars; a Write proceeds if the client
\* reads again and again (strong fairness), and the RUnlock that follows
\* the last row is taken.
SpecLocks ==
    /\ InitLocks
    /\ [][NextLocks]_vars
    /\ SF_vars(ConnWrite(1))
    /\ WF_vars(PostgresRUnlock(1))
    /\ ([]<>(~callerEnabled(1)) \/ []<><<LocksCaller>>_vars)

(***************************************************************************)
(* SpecShutdown: a server that speaks RESP on two listeners, with or       *)
(* without the sweeper, from the moment Start has set up its listeners.    *)
(* Up to MaxConnsShutdown clients connect and send a command or two; the   *)
(* signal arrives at any time; the ticker fires while fewer than           *)
(* MaxStepsShutdown cache calls were begun.  Every goroutine of the server *)
(* that can take a step takes one eventually (the Go scheduler), and a     *)
(* select with two ready cases takes each of them eventually (its choice   *)
(* is random).                                                             *)
(***************************************************************************)
ShutdownStreams ==
    { respArray(<<PING>>), respArray(<<SET, <<1>>, <<7>>>>) \o respArray(<<GET, <<1>>>>) }

InitShutdown ==
    /\ \E st \in {FreshCache(1, 0)} : /\ shards = st.shards
                                       /\ maxMemory = st.maxMemory
                                       /\ heap = st.heap
                                       /\ kv = st.kv
    /\ now = 1
    /\ procs = [p \in {1} |-> IdleClient(NoResult, 0)]
    /\ steps = 0
    /\ server \in {Running(Config(<<>>, TRUE, FALSE, FALSE, FALSE), 2, autoSweep)
                       : autoSweep \in BOOLEAN}
    /\ conns = <<>>

HandlerSteps ==
    \E c \in DOMAIN conns :
        /\ ~server.exited
        /\ \/ ClientSend(c, Len(conns[c].todo))
           \/ ClientClose(c, "EOF")
           \/ PeekFill(c)
           \/ handleConnection(c)
           \/ RedisHandle(c)

SweeperSteps ==
    \/ steps < MaxStepsShutdown /\ SweeperTick
    \/ ~server.exited /\ SweepShard(1)
    \/ SweeperSweepEvicted
    \/ ~server.exited /\ SweepEvictedShard(1)

NextShutdown ==
    \/ Interrupt
    \/ StopCancel
    \/ StopClose
    \/ StopWait
    \/ StartServe
    \/ StartWait
    \/ Exit
    \/ \E i \in 1..2, s \in ShutdownStreams :
           Len(conns) < MaxConnsShutdown /\ Accept(i, s)
    \/ \E i \in 1..2 : ServeReturn(i)
    \/ SweeperSteps
    \/ SweeperReturn
    \/ HandlerSteps

SpecShutdown ==
    /\ InitShutdown
    /\ [][NextShutdown]_vars
    /\ WF_vars(StopCancel) /\ WF_vars(StopClose) /\ WF_vars(StopWait)
    /\ WF_vars(StartServe) /\ WF_vars(StartWait) /\ WF_vars(Exit)
    /\ \A i \in 1..2 : WF_vars(ServeReturn(i))
    /\ WF_vars(SweeperSteps)
    /\ SF_vars(SweeperReturn)

(***************************************************************************)
(* SpecExpire: a server without password that speaks RESP and Memcache,    *)
(* and one connection whose client sends up to MaxScriptExpire commands    *)
(* that write a key, count on it, or rewrite its expiry.                   *)
(***************************************************************************)
ExpireRESP ==
    { respArray(<<SET, <<1>>, <<7>>>>),
      respArray(<<INCRBY, <<1>>, <<50>>>>),             \* INCRBY k 2
      respArray(<<EXPIRE, <<1>>, <<53>>>>),             \* EXPIRE k 5
      respArray(<<GET, <<1>>>>) }

\* "set k 0 0 1\r\nv\r\n", "set k 3 0 1\r\nv\r\n", "touch k 5\r\n", "get k\r\n"
ExpireMemcache ==
    { <<115, 101, 116, 32, 1, 32, 48, 32, 48, 32, 49, 13, 10, 7, 13, 10>>,
      <<115, 101, 116, 32, 1, 32, 51, 32, 48, 32, 49, 13, 10, 7, 13, 10>>,
      <<116, 111, 117, 99, 104, 32, 1, 32, 53, 13, 10>>,
      <<103, 101, 116, 32, 1, 13, 10>> }

InitExpire ==
    InitServer({Config(<<>>, TRUE, FALSE, TRUE, FALSE)},
               { <<Accepted(s)>> : s \in Scripts(ExpireRESP, MaxScriptExpire) \cup
                                        Scripts(ExpireMemcache, MaxScriptExpire) })

NextExpire ==
    \/ ClientSend(1, Len(conns[1].todo))
    \/ ClientClose(1, "EOF")
    \/ PeekFill(1)
    \/ handleConnection(1)
    \/ RedisHandle(1)
    \/ MemcacheHandle(1)

SpecExpire == InitExpire /\ [][NextExpire]_vars

(***************************************************************************)
(* SpecObservers: one client calls Store, Load, Iterate and NumItems on    *)
(* caches whose shards have room for two of the entries, so that a further *)
(* Store marks an entry evicted and leaves it in the map for the observers.*)
(***************************************************************************)
ObserversKeys == { <<1>>, <<3>>, <<13>>, <<14>> }

ObserversWarmups == { <<>>, storeAll(<< <<1>>, <<3>> >>) }

InitObservers ==
    InitFrom(UNION {runCalls({FreshCache(1, 60), FreshCache(2, 120)}, w, 1)
                        : w \in ObserversWarmups}, {1})

NextObservers ==
    \/ \E k \in ObserversKeys :
           steps < MaxStepsObservers /\ DoStore(1, k, <<7>>, NilOptions)
    \/ \E k \in ObserversKeys : steps < MaxStepsObservers /\ LoadGet(1, k)
    \/ LoadCheckEvicted(1)
    \/ LoadCheckExpired(1)
    \/ LoadDelete(1)
    \/ steps < MaxStepsObservers /\ IterateBegin(1)
    \/ IterateShard(1)
    \/ steps < MaxStepsObservers /\ BeginAll(1, "NumItems")
    \/ NumItemsShard(1)

SpecObservers == InitObservers /\ [][NextObservers]_vars

(***************************************************************************)
(* SpecMatch: one caller of matchPattern per state, with a pattern of up   *)
(* to MaxPatternLen bytes out of a, b, '*' and '?' and a key of up to      *)
(* MaxKeyLen bytes out of a, b and c.                                      *)
(***************************************************************************)
RECURSIVE Strings(_, _)
Strings(alphabet, n) ==
    IF n = 0 THEN {<<>>}
    ELSE Strings(alphabet, n - 1) \cup
         {Append(s, b) : s \in Strings(alphabet, n - 1), b \in alphabet}

MatchCaller(pattern, key) ==
    [pc |-> "call", pattern |-> pattern, key |-> key, ret |-> FALSE]

InitMatch ==
    /\ \E st \in {FreshCache(1, 0)} : /\ shards = st.shards
                                       /\ maxMemory = st.maxMemory
                                       /\ heap = st.heap
                                       /\ kv = st.kv
    /\ now = 1
    /\ steps = 0
    /\ server = NoServer
    /\ conns = <<>>
    /\ procs \in { <<MatchCaller(p, k)>> : p \in Strings({97, 98, 42, 63}, MaxPatternLen),
                                           k \in Strings({97, 98, 99}, MaxKeyLen) }

DoMatchPattern(p) ==
    /\ procs[p].pc = "call"
    /\ procs' = [procs EXCEPT ![p].pc = "returned",
                              ![p].ret = matchPattern(procs[p].pattern, procs[p].key)]
    /\ UNCHANGED <<shards, maxMemory, heap, now, kv, steps, server, conns>>

NextMatch == DoMatchPattern(1)

SpecMatch == InitMatch /\ [][NextMatch]_vars

(***************************************************************************)
(* SpecVictim: one client calls the Store of internal/cache/operations.go  *)
(* on four keys, with and without TTL, on a cache of one shard whose       *)
(* limit of 80 bytes has room for three of the entries (randomEntries(2)   *)
(* samples two entries of a map of three); time passes.                    *)
(***************************************************************************)
VictimKeys == { <<1>>, <<3>>, <<13>>, <<14>> }

VictimOptions == { NilOptions, StoreOptions(1, 0, word64(0)), StoreOptions(2, 0, word64(0)) }

InitVictim == InitFrom({FreshCache(1, 80)}, {1})

NextVictim ==
    \/ \E k \in VictimKeys, opts \in VictimOptions :
           steps < MaxStepsVictim /\ DoStoreOperations(1, k, <<7>>, opts)
    \/ now < MaxTimeVictim /\ Tick

SpecVictim == InitVictim /\ [][NextVictim]_vars

(***************************************************************************)
(* SpecEvictLoop: one client calls Store, its eviction loop running round  *)
(* by round, with values of 1, 30 and 60 bytes, with and without TTL, on   *)
(* two keys of a cache of one shard whose limit is 100, 80, 40 or 1 bytes  *)
(* or none; the cache starts empty or, where they fit, with three entries  *)
(* of 26 bytes each.  The client once in a call keeps running until the    *)
(* call returns.                                                           *)
(***************************************************************************)
EvictLoopKeys == { <<1>>, <<3>> }

EvictLoopValues == { <<7>>, [i \in 1..30 |-> 7], [i \in 1..60 |-> 7] }

EvictLoopOptions == { NilOptions, StoreOptions(1, 0, word64(0)) }

EvictLoopWarmups ==
    { <<>>,
      << StoreCall(<<1>>, <<7>>, StoreOptions(1, 0, word64(0))),
         StoreCall(<<14>>, <<7>>, NilOptions),
         StoreCall(<<13>>, <<7>>, StoreOptions(2, 0, word64(0))) >> }

InitEvictLoop ==
    InitFrom({FreshCache(1, 40), FreshCache(1, 1)} \cup
             UNION {runCalls({FreshCache(1, 80), FreshCache(1, 100), FreshCache(1, 0)}, w, 1)
                       : w \in EvictLoopWarmups}, {1})

NextEvictLoop ==
    \/ \E k \in EvictLoopKeys, v \in EvictLoopValues, opts \in EvictLoopOptions :
           steps < MaxStepsEvictLoop /\ StoreLock(1, k, v, opts)
    \/ EvictRound(1)
    \/ StoreUnlock(1)

SpecEvictLoop ==
    /\ InitEvictLoop
    /\ [][NextEvictLoop]_vars
    /\ WF_vars(EvictRound(1))
    /\ WF_vars(StoreUnlock(1))

(***************************************************************************)
(* Properties.                                                             *)
(***************************************************************************)
\* Client p returns from a cache call in this step.
Completed(p) == procs'[p].calls = procs[p].calls + 1

\* C1: for every sequence of Store, Load and Delete (no TTL, no memory limit)
\* a Load of k is a hit with the value of the latest Store of k if k was
\* stored and not deleted since, and a miss otherwise; Delete returns true
\* exactly when the key was present.
C1_LoadDeleteRefineMap ==
    [][\A p \in DOMAIN procs :
          Completed(p) =>
              LET r == procs'[p].ret IN
              /\ r.op = "Load" =>
                     /\ r.ok = kv[r.key].present
                     /\ r.ok => r.val = kv[r.key].value
              /\ r.op = "Delete" => r.ok = kv[r.key].present]_vars

\* C1 witness: a Load has hit in a table that has grown to 32 buckets, and
\* the key that hashes like the loaded one is absent.
C1_Witness ==
    /\ procs[1].ret.op = "Load" /\ procs[1].ret.ok
    /\ procs[1].ret.key = <<1, 1>>
    /\ ~kv[<<1>>].present
    /\ Len(shards[1].m.buckets) = 2 * MinMapSize

RECURSIVE power(_, _)
power(b, n) == IF n = 0 THEN 1 ELSE b * power(b, n - 1)

isPowerOfTwo(n) == \E e \in 0..16 : power(2, e) = n

\* The buckets of m that hold an entry (indices from 0, as in the code).
occupied(m) == {i \in 0..(Len(m.buckets) - 1) : m.buckets[i + 1].entry # NIL}

\* Scanning forward from the home bucket of the key in bucket i, every
\* bucket before i is occupied, holds another key, and has a distance that
\* is not smaller than the scan's distance there.
reachedByScan(m, hp, i) ==
    LET size == Len(m.buckets)
        home == BitAnd(m.buckets[i + 1].hash, m.mask)
        span == (i - home + size) % size
    IN  \A d \in 0..(span - 1) :
            LET b == m.buckets[((home + d) % size) + 1] IN
            /\ b.entry # NIL
            /\ b.distance >= d
            /\ hp[b.entry].key # hp[m.buckets[i + 1].entry].key

\* The invariants of one map: unique keys, capacity, reachability.
mapInvariants(m, hp) ==
    /\ isPowerOfTwo(Len(m.buckets))
    /\ Len(m.buckets) >= 16
    /\ m.mask = Len(m.buckets) - 1
    /\ \A i, j \in occupied(m) :
           i # j => hp[m.buckets[i + 1].entry].key # hp[m.buckets[j + 1].entry].key
    /\ \A i \in occupied(m) :
           /\ hashKey(hp[m.buckets[i + 1].entry].key) = m.buckets[i + 1].hash
           /\ reachedByScan(m, hp, i)
           /\ lookup(m, hp, hp[m.buckets[i + 1].entry].key, m.buckets[i + 1].hash) = i

\* C5: after every map mutation no key occupies two buckets, the capacity is
\* a power of two and at least 16, and every stored key is reached by the
\* scan from its home bucket before the scan's early exit.
C5_MapInvariants == \A s \in 1..Len(shards) : mapInvariants(shards[s].m, heap)

\* C5 witness: a Delete has shrunk a table of 32 buckets back to 16, and an
\* entry sits away from its home bucket.
C5_Witness ==
    /\ procs[1].ret.op = "Delete" /\ procs[1].ret.ok
    /\ Len(shards[1].m.buckets) = MinMapSize
    /\ shards[1].numOps > 20
    /\ \E i \in occupied(shards[1].m) : shards[1].m.buckets[i + 1].distance > 0

\* No client is inside a cache call.
Quiescent == \A p \in DOMAIN procs : procs[p].pc = "idle"

\* The entry that holds key in its shard's map, or NIL.
entryOf(key) == get(shards[getShard(Len(shards), key)].m, heap, key)

\* C2: with a memory limit, a Store that has returned leaves its key in the
\* map with the stored value and not marked evicted, for as long as the TTL
\* it asked for has not elapsed and no later call has run.
C2_StoredKeyPresent ==
    \A p \in DOMAIN procs :
        LET r == procs[p].ret IN
        (/\ procs[p].pc = "idle"
         /\ r.op = "Store"
         /\ maxMemory > 0
         /\ (kv[r.key].expireAt = 0 \/ now <= kv[r.key].expireAt))
        => /\ r.ok
           /\ entryOf(r.key) # NIL
           /\ heap[entryOf(r.key)].value = r.val
           /\ ~IsEvicted(heap[entryOf(r.key)])

\* The sizes of the entries of shard s that are not marked evicted.
RECURSIVE sumLive(_, _)
sumLive(hp, ids) ==
    IF ids = <<>> THEN 0
    ELSE (IF IsEvicted(hp[Head(ids)]) THEN 0 ELSE Size(hp[Head(ids)]))
         + sumLive(hp, Tail(ids))

liveSize(s) == sumLive(heap, iter(shards[s].m))

\* C3: when no call is in progress, the memory counter of every shard is
\* the sum of the sizes of the entries in its map that are not marked
\* evicted.
C3_MemUsedIsLiveSize ==
    Quiescent => \A s \in 1..Len(shards) : shards[s].memUsed = liveSize(s)

\* The largest entry a Store of SpecLimit creates.
LimitMaxEntry ==
    CHOOSE n \in {Size(NewEntry(k, v)) : k \in LimitKeys, v \in LimitValues} :
        \A k \in LimitKeys, v \in LimitValues : Size(NewEntry(k, v)) <= n

\* C4 as stated: with a memory limit, after any sequence of Stores the
\* total of the memory counters is at most the limit, whatever the entry
\* sizes and the number of shards.
C4_Original == maxMemory > 0 => MemUsed(shards) <= maxMemory

\* C4: with a memory limit whose share per shard (limit / shards, rounded
\* down) is at least the size of every stored entry, after any sequence of
\* Stores the total of the memory counters is at most the limit.
C4_MemUsedWithinLimit ==
    (maxMemory > 0 /\ goDiv(maxMemory, Len(shards)) >= LimitMaxEntry)
    => MemUsed(shards) <= maxMemory

\* C4 witness: Stores have evicted in a cache of two shards whose shares
\* hold every entry, and a shard is filled to two entries.
C4_Witness ==
    /\ Len(shards) = 2
    /\ goDiv(maxMemory, Len(shards)) >= LimitMaxEntry
    /\ shards[1].numEvicted > 0
    /\ shards[1].memUsed > LimitMaxEntry
    /\ procs[1].ret.op = "Store"

\* What a Load of key returns when no other call runs: a hit unless the key
\* is not in the map, is marked evicted or has expired.
loadHits(key) ==
    /\ entryOf(key) # NIL
    /\ ~IsEvicted(heap[entryOf(key)])
    /\ ~IsExpired(heap[entryOf(key)], now)

\* C6: once all concurrent Store, Load and Delete calls on a key have
\* returned, the map invariants and the memory accounting hold, and a Load
\* of the key hits with one of the values written, or misses only if a
\* Delete was among the calls, nothing was written, or the TTL of the last
\* write has elapsed.
C6_ConcurrentSameKey ==
    Quiescent =>
        /\ \A s \in 1..Len(shards) :
               /\ mapInvariants(shards[s].m, heap)
               /\ shards[s].memUsed = liveSize(s)
        /\ loadHits(ConcKey) => heap[entryOf(ConcKey)].value \in kv[ConcKey].written
        /\ ~loadHits(ConcKey) =>
               \/ kv[ConcKey].deleted
               \/ kv[ConcKey].written = {}
               \/ kv[ConcKey].expireAt # 0 /\ now > kv[ConcKey].expireAt

\* The entry that holds key in the map of its shard in shs, or NIL.
entryIn(shs, hp, key) == get(shs[getShard(Len(shs), key)].m, hp, key)

\* C7: a CompareAndSwap succeeds only if the cas of the entry equals the
\* expected cas when the call takes the lock, and the cas is one larger
\* when it releases it; so no two clients have both succeeded on the same
\* key with the same expected cas.
C7_CasAtomic ==
    /\ [](\A p, q \in DOMAIN procs :
             (/\ p # q
              /\ procs[p].ret.op = "CompareAndSwap" /\ procs[p].ret.ok
              /\ procs[q].ret.op = "CompareAndSwap" /\ procs[q].ret.ok
              /\ procs[p].ret.key = procs[q].ret.key)
             => procs[p].ret.num # procs[q].ret.num)
    /\ [][\A p \in DOMAIN procs :
             (Completed(p) /\ procs'[p].ret.op = "CompareAndSwap" /\ procs'[p].ret.ok)
             => LET r == procs'[p].ret
                    id == entryOf(r.key)
                IN  /\ id # NIL
                    /\ heap[id].cas = r.num
                    /\ entryIn(shards', heap', r.key) = id
                    /\ heap'[id].cas = add64(r.num, word64(1))]_vars

\* C7 witness: both clients called CompareAndSwap on the stored key with
\* expected cas 0 and the second of them lost.
C7_Witness ==
    /\ procs[1].ret = Result("CompareAndSwap", <<1>>, FALSE, CasValue(1), word64(0))
    /\ procs[2].ret = Result("CompareAndSwap", <<1>>, TRUE, CasValue(2), word64(0))
    /\ procs[1].calls = 1 /\ procs[2].calls = 1

\* C9: CompareAndSwap returns true exactly when the key is in the map and
\* its cas equals the expected cas, and the entry then holds the new value;
\* when it returns false the entries, the maps and the memory counters are
\* unchanged.
C9_CasResult ==
    [][\A p \in DOMAIN procs :
          (Completed(p) /\ procs'[p].ret.op = "CompareAndSwap")
          => LET r == procs'[p].ret
                 id == entryOf(r.key)
             IN  /\ r.ok = (id # NIL /\ heap[id].cas = r.num)
                 /\ r.ok => /\ entryIn(shards', heap', r.key) = id
                             /\ heap'[id].value = r.val
                 /\ ~r.ok => /\ heap' = heap
                              /\ \A s \in 1..Len(shards) :
                                     /\ shards'[s].m = shards[s].m
                                     /\ shards'[s].memUsed = shards[s].memUsed]_vars

\* C9 witness: client 1 reused the cas that a successful CompareAndSwap of
\* client 2 had consumed, failed, and the value of client 2 is still there;
\* a CompareAndSwap on the absent key has failed too.
C9_Witness ==
    /\ procs[1].ret = Result("CompareAndSwap", <<1>>, FALSE, CasValue(1), word64(0))
    /\ procs[2].ret = Result("CompareAndSwap", <<3>>, FALSE, CasValue(2), word64(1))
    /\ entryOf(<<1>>) # NIL
    /\ heap[entryOf(<<1>>)].value = CasValue(2)
    /\ heap[entryOf(<<1>>)].cas = word64(1)
    /\ heap[entryOf(<<1>>)].flags = 1

\* The entries that are in a map of shs.
entriesIn(shs) ==
    UNION {{shs[s].m.buckets[i].entry : i \in 1..Len(shs[s].m.buckets)} : s \in 1..Len(shs)}
    \ {NIL}

\* Entry id is mutated in this step: a successful CompareAndSwap, a Store
\* or an Increment returns whose key id held before.
mutates(id) ==
    \E p \in DOMAIN procs :
        /\ Completed(p)
        /\ \/ procs'[p].ret.op \in {"Store", "Increment"}
           \/ procs'[p].ret.op = "CompareAndSwap" /\ procs'[p].ret.ok
        /\ entryOf(procs'[p].ret.key) = id

\* C8 as stated: while an entry stays in the map its cas never decreases,
\* and it is strictly larger after every successful CompareAndSwap, every
\* Store that overwrites the key and every Increment of the existing key.
C8_Original ==
    [][\A id \in entriesIn(shards) \cap entriesIn(shards') :
          /\ ~less64(heap'[id].cas, heap[id].cas)
          /\ mutates(id) => less64(heap[id].cas, heap'[id].cas)]_vars

\* C8: while an entry stays in the map its cas changes only by such a
\* mutation, which adds one modulo 2^64; so unless the cas is 2^64 - 1 it
\* never decreases and is strictly larger after every successful
\* CompareAndSwap, every Store that overwrites the key and every Increment
\* of the existing key.
C8_CasGrowsUntilWrap ==
    [][\A id \in entriesIn(shards) \cap entriesIn(shards') :
          /\ heap'[id].key = heap[id].key
          /\ mutates(id) => heap'[id].cas = add64(heap[id].cas, word64(1))
          /\ ~mutates(id) => heap'[id].cas = heap[id].cas
          /\ heap[id].cas # MaxUint64 =>
                 /\ ~less64(heap'[id].cas, heap[id].cas)
                 /\ mutates(id) => less64(heap[id].cas, heap'[id].cas)]_vars

\* C8 witness: an overwriting Store, a successful CompareAndSwap and an
\* Increment have taken the cas of the stored entry from 0 to 3.
C8_Witness ==
    /\ procs[1].ret.op = "Increment"
    /\ procs[1].calls = 3
    /\ entryOf(VersionsKey) # NIL
    /\ heap[entryOf(VersionsKey)].cas = word64(3)
    /\ heap[entryOf(VersionsKey)].value = int64ToBytes(word64(1))

\* C10: Increment returns the counter of the key after the call, where the
\* counter of an absent key, or of a value that is not eight bytes long,
\* starts from 0 and every Increment adds its delta modulo 2^64; the value
\* stored is the eight bytes of the counter, most significant first; an
\* Increment of an absent key returns its delta, an Increment of a present
\* key keeps the entry and adds one to its cas.  The map holds the keys and
\* values of the history throughout.
C10_IncrementCounts ==
    /\ [](LET h == kv[IncrementKey] IN
           /\ h.present = (entryOf(IncrementKey) # NIL)
           /\ h.present => heap[entryOf(IncrementKey)].value = h.value)
    /\ [][(Completed(1) /\ procs'[1].ret.op = "Increment")
           => LET r == procs'[1].ret
                  id == entryOf(r.key)
                  after == entryIn(shards', heap', r.key)
              IN  /\ r.num = fromBigEndian(kv'[r.key].value)
                  /\ after # NIL
                  /\ heap'[after].value = bigEndian(r.num)
                  /\ Len(heap'[after].value) = 8
                  /\ id = NIL => r.num = r.val
                  /\ id # NIL => /\ after = id
                                  /\ r.num = add64(fromBigEndian(heap[id].value), r.val)
                                  /\ heap'[id].cas = add64(heap[id].cas, word64(1))]_vars

\* C10 witness: the third Increment of a key that was absent returned a
\* negative total, the sum of the three deltas -2, -2 and 3.
C10_Witness ==
    /\ procs[1].ret = Result("Increment", IncrementKey, TRUE, word64(3), word64(-1))
    /\ procs[1].calls = 3
    /\ ~kv[IncrementKey].deleted
    /\ kv[IncrementKey].written =
           {int64ToBytes(word64(-2)), int64ToBytes(word64(-4)), int64ToBytes(word64(-1))}

\* The expiry rule, written out: expire_at > 0 and expire_at < now.
elapsed(expireAt, t) == expireAt > 0 /\ expireAt < t

\* C11: a Load is a hit exactly when the key is in the map and its expiry
\* is 0 or has not passed; a Load that finds the expiry passed reports a
\* miss, removes the entry, lowers mem_used by its size and adds one to
\* num_expired and to num_misses; a stored and not deleted key is a hit as
\* long as the TTL of its last Store has not elapsed.
C11_LoadExpires ==
    [][(Completed(1) /\ procs'[1].ret.op = "Load")
       => LET r == procs'[1].ret
              s == getShard(Len(shards), r.key)
              id == entryOf(r.key)
          IN  /\ r.ok = (id # NIL /\ ~elapsed(heap[id].expireAt, now))
              /\ (kv[r.key].present /\ ~elapsed(kv[r.key].expireAt, now)) => r.ok
              /\ r.ok => /\ r.val = heap[id].value
                          /\ shards'[s].m = shards[s].m
                          /\ shards'[s].memUsed = shards[s].memUsed
                          /\ shards'[s].numExpired = shards[s].numExpired
              /\ (~r.ok /\ id # NIL) =>
                     /\ heap[id].expireAt # 0
                     /\ entryIn(shards', heap', r.key) = NIL
                     /\ shards'[s].m.numItems = shards[s].m.numItems - 1
                     /\ shards'[s].memUsed = shards[s].memUsed - Size(heap[id])
                     /\ shards'[s].numExpired = shards[s].numExpired + 1
                     /\ shards'[s].numMisses = shards[s].numMisses + 1]_vars

\* C11 witness: a key stored with a TTL was loaded with a hit, and after the
\* TTL had elapsed a Load missed and removed it.
C11_Witness ==
    /\ procs[1].ret = Result("Load", <<1>>, FALSE, <<>>, word64(0))
    /\ shards[1].numHits = 1
    /\ shards[1].numExpired = 1
    /\ kv[<<1>>].present /\ kv[<<1>>].expireAt > 0
    /\ entryOf(<<1>>) = NIL

\* The entries in the map of one shard.
entriesOf(sh) == {sh.m.buckets[i].entry : i \in 1..Len(sh.m.buckets)} \ {NIL}

\* The sum of the sizes of a set of entries.
RECURSIVE sumSizesOf(_, _)
sumSizesOf(hp, ids) ==
    IF ids = {} THEN 0
    ELSE LET id == CHOOSE i \in ids : TRUE IN Size(hp[id]) + sumSizesOf(hp, ids \ {id})

\* C13: when Sweep handles a shard it removes exactly the entries of the
\* shard whose expiry has passed, adds their number to num_expired and to
\* the number Sweep returns, lowers mem_used by their sizes, leaves every
\* other entry of the shard in the map and unchanged, and leaves the other
\* shards alone.
C13_SweepRemovesExpired ==
    [][(procs[1].pc = "Sweep" /\ procs'[1] # procs[1])
       => LET s == procs[1].idx
              before == entriesOf(shards[s])
              expired == {id \in before : elapsed(heap[id].expireAt, now)}
              n == Cardinality(expired)
          IN  /\ entriesOf(shards'[s]) = before \ expired
              /\ \A id \in before \ expired : heap'[id] = heap[id]
              /\ \A id \in before : heap[id].expireAt = 0 => id \in entriesOf(shards'[s])
              /\ shards'[s].m.numItems = shards[s].m.numItems - n
              /\ shards'[s].numExpired = shards[s].numExpired + n
              /\ shards'[s].memUsed = shards[s].memUsed - sumSizesOf(heap, expired)
              /\ mapInvariants(shards'[s].m, heap')
              /\ \A o \in 1..Len(shards) : o # s => shards'[o] = shards[o]
              /\ IF procs'[1].pc = "Sweep"
                 THEN procs'[1].acc = procs[1].acc + n
                 ELSE procs'[1].ret = Result("Sweep", <<>>, TRUE, <<>>,
                                             word64(procs[1].acc + n))]_vars

\* C13 witness: a Sweep returned 2 after removing the two expired entries
\* of the first shard; the entry without TTL and the entry whose TTL has
\* not elapsed are still there.
C13_Witness ==
    /\ procs[1].ret = Result("Sweep", <<>>, TRUE, <<>>, word64(2))
    /\ shards[1].numExpired = 2
    /\ shards[1].m.numItems = 1
    /\ entryOf(<<3>>) # NIL
    /\ entryOf(<<13>>) # NIL /\ heap[entryOf(<<13>>)].expireAt >= now
    /\ entryOf(<<1>>) = NIL /\ entryOf(<<1, 1>>) = NIL

\* C12: a Load whose key is held by an entry marked evicted returns a miss,
\* removes the entry from the map and adds one to num_misses; a Load that
\* returns a hit found an entry that is not marked evicted.
C12_LoadOfEvictedMisses ==
    [][(Completed(1) /\ procs'[1].ret.op = "Load")
       => LET r == procs'[1].ret
              s == getShard(Len(shards), r.key)
              id == entryOf(r.key)
          IN  /\ r.ok => (id # NIL /\ ~IsEvicted(heap[id]))
              /\ (id # NIL /\ IsEvicted(heap[id])) =>
                     /\ ~r.ok
                     /\ entryIn(shards', heap', r.key) = NIL
                     /\ shards'[s].m.numItems = shards[s].m.numItems - 1
                     /\ shards'[s].numMisses = shards[s].numMisses + 1
                     /\ shards'[s].numExpired = shards[s].numExpired]_vars

\* C12 witness: a Store evicted the entry of key 1, a Load of key 1 missed
\* and removed it, and the other two keys are in the map.
C12_Witness ==
    /\ procs[1].ret = Result("Load", <<1>>, FALSE, <<>>, word64(0))
    /\ shards[1].numEvicted = 1
    /\ shards[1].numMisses = 1
    /\ shards[1].m.numItems = 2
    /\ entryOf(<<1>>) = NIL
    /\ kv[<<1>>].present /\ ~kv[<<1>>].deleted

\* C14: on a cache built without memory limit nothing is evicted: the
\* eviction counters stay 0, and every key stored without TTL and not
\* deleted since is loadable with the value last written.
C14_NoLimitNoEviction ==
    maxMemory = 0 =>
        /\ \A s \in 1..Len(shards) : shards[s].numEvicted = 0
        /\ \A k \in DOMAIN kv :
               (kv[k].present /\ kv[k].expireAt = 0) =>
                   /\ loadHits(k)
                   /\ heap[entryOf(k)].value = kv[k].value

\* C15: after Clear has returned, with no other call running, every shard
\* is empty (no item, mem_used 0, every Load would miss) and its counters
\* num_ops, num_hits, num_misses, num_evicted and num_expired are 0.
C15_ClearResets ==
    (procs[1].pc = "idle" /\ procs[1].ret.op = "Clear") =>
        \A s \in 1..Len(shards) :
            /\ shards[s].m.numItems = 0
            /\ entriesOf(shards[s]) = {}
            /\ shards[s].memUsed = 0
            /\ shards[s].numOps = 0
            /\ shards[s].numHits = 0
            /\ shards[s].numMisses = 0
            /\ shards[s].numEvicted = 0
            /\ shards[s].numExpired = 0

\* The rules of classification in their order of priority, and the type
\* the first rule that holds of a prefix gives.
ruleHolds(i, prefix) ==
    CASE i = 1 -> prefix # <<>> /\ prefix[1] \in respMarkers
      [] i = 2 -> \E w \in httpMethods : HasPrefix(prefix, w)
      [] i = 3 -> \E w \in memcacheCommands : HasPrefix(prefix, w)
      [] i = 4 -> Len(prefix) = 8 /\ SubSeq(prefix, 5, 8) = <<0, 3, 0, 0>>

ruleTypes == <<"TypeRedis", "TypeHTTP", "TypeMemcache", "TypePostgres">>

classified(prefix) ==
    IF \E i \in 1..4 : ruleHolds(i, prefix)
    THEN ruleTypes[CHOOSE i \in 1..4 :
                       ruleHolds(i, prefix) /\ \A j \in 1..(i - 1) : ~ruleHolds(j, prefix)]
    ELSE "TypeRedis"

\* C18: Detect peeks the first 8 bytes of the stream (fewer when the stream
\* ends before) and returns the type of the first rule, in the order RESP
\* marker, HTTP method, Memcache command, Postgres startup version, that
\* holds of them, and RESP when none does.
C18_DetectClassifies ==
    \A c \in DOMAIN conns :
        LET cn == conns[c] IN
        (cn.pc # "Detect" /\ cn.protoType # "TypeUnknown") =>
            /\ cn.peeked = Take(cn.sent, 8)
            /\ Len(cn.peeked) < 8 => cn.fin = "EOF"
            /\ cn.protoType = classified(cn.peeked)
            /\ cn.pc = handlerOf(server, cn.protoType)

\* A stream that starts with an HTTP method and carries the Postgres
\* version in bytes 4..7 was given to the HTTP handler.
C18_Witness ==
    /\ conns[1].peeked = <<71, 69, 84, 32, 0, 3, 0, 0>>
    /\ conns[1].protoType = "TypeHTTP"
    /\ ruleHolds(4, conns[1].peeked)
    /\ conns[1].pc = "HTTP"

\* C19: the bytes the handler has taken from its reader, followed by those
\* its reader and the Detector's reader hold and those still in the socket,
\* are the bytes the client has sent, in order; when the handler has seen
\* the end of the stream it has taken every byte sent.
C19_NothingConsumed ==
    \A c \in DOMAIN conns :
        LET cn == conns[c]
            held == cn.got \o cn.hbuf \o cn.rbuf
        IN  /\ HasPrefix(cn.sent, held)
            /\ cn.fin # "reset" => held \o cn.sock = cn.sent
            /\ (cn.pc \in Handlers /\ cn.got \o cn.hbuf = <<>>) =>
                   HasPrefix(cn.rbuf, cn.peeked)
            /\ (cn.pc = "Closed" /\ cn.protoType # "TypeUnknown" /\ cn.fin = "EOF") =>
                   cn.got = cn.sent

\* The handler has read a whole stream of MaxStreamDetect bytes that took
\* more than one fill of the Detector's reader.
C19_Witness ==
    /\ conns[1].pc = "Closed"
    /\ conns[1].fin = "EOF"
    /\ conns[1].protoType = "TypeMemcache"
    /\ conns[1].peeked = <<103, 101, 116, 32, 107, 13, 10, 113>>
    /\ conns[1].todo = <<>>
    /\ Len(conns[1].got) > BufSize
    /\ conns[1].got = conns[1].sent

\* A step of the handler of connection c.
handlerStep(c) ==
    /\ conns[c].pc \in Handlers
    /\ conns'[c].got # conns[c].got \/ conns'[c].pc # conns[c].pc

\* C17: with a password the RESP handler starts unauthenticated; while it
\* is, a command other than AUTH and PING gets the one reply -NOAUTH
\* Authentication required and no round makes a cache call; only AUTH with
\* the configured password authenticates, any other AUTH changes nothing,
\* an authenticated session stays so, and a round changes the state of its
\* own connection only.
C17_SessionAuth ==
    [][\A c \in DOMAIN conns :
          LET cn == conns[c]
              after == conns'[c]
              r == readCommand(unread(cn), cn.fin)
              name == ToUpper(r.cmd[1])
              command == /\ cn.pc = "Redis"
                         /\ after.got # cn.got
                         /\ r.st = "ok"
                         /\ Len(r.cmd) > 0
              rightAuth == name = AUTH /\ Len(r.cmd) = 2 /\ r.cmd[2] = server.Auth
          IN  /\ (cn.pc = "Detect" /\ after.pc = "Redis") =>
                     after.authenticated = (server.Auth = <<>>)
              /\ (command /\ ~cn.authenticated /\ name \notin {AUTH, PING}) =>
                     /\ after.out = Append(cn.out, writeError("NOAUTH Authentication required"))
                     /\ after.pc = "Redis"
              /\ (handlerStep(c) /\ cn.pc = "Redis" /\ ~cn.authenticated) =>
                     /\ after.ops = cn.ops
                     /\ shards' = shards
                     /\ heap' = heap
              /\ (cn.pc = "Redis" /\ ~cn.authenticated /\ after.authenticated) =>
                     command /\ rightAuth
              /\ (command /\ name = AUTH /\ ~rightAuth) =>
                     after.authenticated = cn.authenticated
              /\ (cn.pc = "Redis" /\ cn.authenticated) => after.authenticated
              /\ handlerStep(c) =>
                     \A d \in DOMAIN conns \ {c} :
                         conns'[d].authenticated = conns[d].authenticated
      ]_vars

\* With a password: the first connection has authenticated and stored a
\* key, the second has sent its SET without AUTH, was refused and is still
\* unauthenticated.
C17_Witness ==
    /\ server.Auth = SessionPassword
    /\ conns[1].authenticated
    /\ conns[1].ops = <<[op |-> "Store", key |-> <<1>>, authenticated |-> TRUE]>>
    /\ conns[2].pc = "Redis"
    /\ ~conns[2].authenticated
    /\ conns[2].out = <<writeError("NOAUTH Authentication required")>>
    /\ conns[2].ops = <<>>
    /\ conns[2].todo = <<>>
    /\ entryOf(<<1>>) # NIL /\ heap[entryOf(<<1>>)].value = <<7>>

\* C16: with a password, every cache call a handler makes is made for a
\* connection that has presented the password.
C16_AuthCoversAll ==
    server.Auth # <<>> =>
        \A c \in DOMAIN conns :
            \A i \in DOMAIN conns[c].ops : conns[c].ops[i].authenticated

\* The number of words a command of the model must have, at least and at
\* most (0: no limit).
arity(name) ==
    CASE name = AUTH -> <<2, 2>>
      [] name = GET -> <<2, 2>>
      [] name = SET -> <<3, 0>>
      [] name = DEL -> <<2, 0>>
      [] name = INCRBY -> <<3, 3>>
      [] name = ECHO -> <<2, 2>>
      [] OTHER -> <<1, 0>>

wrongCount(cmd) ==
    LET a == arity(ToUpper(cmd[1])) IN
    Len(cmd) < a[1] \/ (a[2] > 0 /\ Len(cmd) > a[2])

badNumeric(cmd) == ToUpper(cmd[1]) = INCRBY /\ Len(cmd) = 3 /\ ~Atoi(cmd[3]).ok

\* The bytes at the head of s are an array whose framing is broken: its
\* count, or the line of an argument, is not what RESP asks for.
malformed(s, fin) ==
    LET r == readCommand(s, fin) IN
    \/ r.st = "panic"
    \/ r.st = "err" /\ r.msg \in {"expected bulk string", "strconv.Atoi: invalid syntax"}

\* C20: a round of the RESP handler on a request with broken framing, with
\* a wrong number of arguments or with a bad numeric argument writes one
\* error reply and leaves the handler in its loop.
C20_ErrorsAnsweredInline ==
    [][\A c \in DOMAIN conns :
          LET cn == conns[c]
              after == conns'[c]
              r == readCommand(unread(cn), cn.fin)
          IN  (/\ cn.pc = "Redis"
               /\ after.got # cn.got
               /\ \/ malformed(unread(cn), cn.fin)
                  \/ r.st = "ok" /\ Len(r.cmd) > 0 /\ (wrongCount(r.cmd) \/ badNumeric(r.cmd)))
              => /\ Len(after.out) = Len(cn.out) + 1
                 /\ after.out[Len(after.out)].kind = "error"
                 /\ after.pc = "Redis"
      ]_vars

\* The glob match of the whole key: '*' stands for any run of bytes, '?'
\* for one byte, every other byte for itself.
RECURSIVE globMatch(_, _)
globMatch(pattern, key) ==
    IF pattern = <<>> THEN key = <<>>
    ELSE IF Head(pattern) = 42
    THEN \E n \in 0..Len(key) : globMatch(Tail(pattern), Drop(key, n))
    ELSE /\ key # <<>>
         /\ Head(pattern) = 63 \/ Head(pattern) = Head(key)
         /\ globMatch(Tail(pattern), Tail(key))

\* C24: matchPattern(pattern, key) is true exactly when the whole key
\* matches the glob pattern ('*' any run of bytes, '?' one byte, any other
\* byte itself): what it returns is what the reference matcher gives; of
\* the keys a, ab and abc the pattern a* matches all and a? only ab.
C24_MatchPatternIsGlob ==
    \A p \in DOMAIN procs :
        procs[p].pc = "returned" =>
            /\ procs[p].ret = globMatch(procs[p].pattern, procs[p].key)
            /\ procs[p].pattern = <<97, 42>>
               /\ procs[p].key \in {<<97>>, <<97, 98>>, <<97, 98, 99>>} => procs[p].ret
            /\ procs[p].pattern = <<97, 63>>
               /\ procs[p].key \in {<<97>>, <<97, 98>>, <<97, 98, 99>>}
                    => (procs[p].ret <=> procs[p].key = <<97, 98>>)

\* matchPattern has returned true for a pattern with a '*' between two
\* bytes and a key in which the star stands for one byte.
C24_Witness ==
    /\ procs[1].pc = "returned"
    /\ procs[1].pattern = <<97, 42, 98>>
    /\ procs[1].key = <<97, 99, 98>>
    /\ procs[1].ret

\* Every occupied bucket of m stores the hash of its entry's key, and as
\* distance how far it stands behind the home bucket of that hash.
distancesExact(m, hp) ==
    \A i \in occupied(m) :
        LET b == m.buckets[i + 1]
            size == Len(m.buckets)
        IN  /\ b.hash = hashKey(hp[b.entry].key)
            /\ b.distance = (i - BitAnd(b.hash, m.mask) + size) % size

\* C25: in every reachable map state each occupied bucket at index i stores
\* the hash of its entry's key and a distance equal to
\* (i - (hash & mask)) mod capacity; insertion with displacement,
\* backward-shift deletion and resize preserve this.
C25_DistanceIsOffset == \A s \in 1..Len(shards) : distancesExact(shards[s].m, heap)

\* C25 witness: a Delete has removed an entry, and in the table a probe
\* sequence wraps round the end: an entry stands in a bucket below its home
\* bucket, at a distance above 0.
C25_Witness ==
    /\ procs[1].ret.op = "Delete" /\ procs[1].ret.ok
    /\ \E s \in 1..Len(shards) :
           \E i \in occupied(shards[s].m) :
               /\ i < BitAnd(shards[s].m.buckets[i + 1].hash, shards[s].m.mask)
               /\ shards[s].m.buckets[i + 1].distance > 0

\* The victims the rule of two-random eviction allows among the sampled
\* entries at time t: (a) the expired one of two, (b) of two expired the
\* one with the earlier expire_at, (c) of two that are not expired and have
\* a TTL the one expiring soonest, (d) otherwise either; the single entry
\* of a sample of one.
ruleVictims(entries, hp, t) ==
    IF Len(entries) = 1 THEN {entries[1]}
    ELSE LET ids == {entries[1], entries[2]}
             expired == {id \in ids : IsExpired(hp[id], t)}
             soonest(among) ==
                 {id \in among : \A other \in among : hp[id].expireAt <= hp[other].expireAt}
         IN  IF Cardinality(expired) = 1 THEN expired
             ELSE IF expired = ids THEN soonest(ids)
             ELSE IF \A id \in ids : hp[id].expireAt > 0 THEN soonest(ids)
             ELSE ids

\* The pointers held by the buckets of a map.
pointersOf(m) == {m.buckets[i].entry : i \in 1..Len(m.buckets)} \ {NIL}

\* C26: two-random victim choice.  When a Store evicts one entry of a shard
\* from which randomEntries(2) sampled one or two entries, the entry that
\* has left the map is one the rule allows: the expired one of the two, of
\* two expired ones the one with the earlier expire_at, of two unexpired
\* ones with a TTL the one expiring soonest, otherwise either of them; the
\* single entry of a sample of one.
C26_VictimByPriority ==
    [][\A p \in DOMAIN procs :
          Completed(p) /\ procs'[p].ret.op = "Store" =>
              \A s \in 1..Len(shards) :
                  shards'[s].numEvicted = shards[s].numEvicted + 1 =>
                      pointersOf(shards[s].m) \ pointersOf(shards'[s].m)
                          \subseteq ruleVictims(randomEntries(shards[s].m, 2), heap, now)
      ]_vars

\* C27: the eviction loop terminates.  Each round of evictIfNeeded lowers
\* mem_used of the shard, and a Store that has entered the loop returns:
\* the loop ends when mem_used + d <= max_memory, when the shard has no
\* items or when the sample is empty, whatever the state of the shard, the
\* limit and the size d.
C27_EvictLoopTerminates ==
    /\ [][\A p \in DOMAIN procs :
             procs[p].pc = "evictIfNeeded" /\ procs'[p].pc = "evictIfNeeded"
             /\ shards' # shards
                 => shards'[procs[p].idx].memUsed < shards[procs[p].idx].memUsed]_vars
    /\ \A p \in {1} : procs[p].pc = "evictIfNeeded" ~> procs[p].pc = "idle"

\* C27 witness: the loop is in its third round or later for one Store, on a
\* shard that still has items and still lacks the room.
C27_Witness ==
    /\ procs[1].pc = "evictIfNeeded"
    /\ shards[procs[1].idx].numEvicted >= procs[1].acc + 2
    /\ evictContinues(shards[procs[1].idx], Size(procs[1].built))

\* The entries of shard sh that are marked evicted, and their total size.
evictedIn(sh, hp) == {id \in pointersOf(sh.m) : IsEvicted(hp[id])}

RECURSIVE sumSizesIn(_, _)
sumSizesIn(hp, ids) ==
    IF ids = {} THEN 0
    ELSE LET id == CHOOSE x \in ids : TRUE IN Size(hp[id]) + sumSizesIn(hp, ids \ {id})

\* What SweepEvicted removes from the shard it visits in this step, and
\* what it counts: all entries marked evicted if their memory exceeds 10 %
\* of mem_used and none otherwise, and never another entry.
sweepEvictedRemoves(p) ==
    LET sh == shards[procs[p].idx]
        after == shards'[procs[p].idx]
        marked == evictedIn(sh, heap)
        removed == IF 10 * sumSizesIn(heap, marked) > sh.memUsed THEN marked ELSE {}
        counted == IF procs'[p].pc = "idle" THEN procs'[p].ret.num
                   ELSE word64(procs'[p].acc)
    IN  /\ pointersOf(after.m) = pointersOf(sh.m) \ removed
        /\ counted = word64(procs[p].acc + Cardinality(removed))

\* C28: SweepEvicted, per shard, removes all entries marked evicted if their
\* memory exceeds 10 % of the shard's mem_used and none otherwise, returns
\* their count and never removes another entry; where mem_used was the
\* total size of the entries not marked evicted before it removed the
\* evicted ones, it still is afterwards.
C28_SweepEvictedAccounts ==
    [][\A p \in DOMAIN procs :
          procs[p].pc = "SweepEvicted" /\ procs'[p] # procs[p] =>
              /\ sweepEvictedRemoves(p)
              /\ shards[procs[p].idx].memUsed = liveSize(procs[p].idx)
                     => shards'[procs[p].idx].memUsed
                            = sumLive(heap, iter(shards'[procs[p].idx].m))
      ]_vars
\* The entries of a shard's map whose evicted bit is clear.
notEvictedIn(sh, hp) == pointersOf(sh.m) \ evictedIn(sh, hp)

\* The keys appended by the step of Iterate that client p takes.
keysPassed(p) ==
    LET before == procs[p].keys
        after == IF procs'[p].pc = "idle" THEN procs'[p].ret.keys ELSE procs'[p].keys
    IN  {after[i] : i \in (Len(before) + 1)..Len(after)}

\* What the step of NumItems that client p takes adds to the total.
itemsCounted(p) ==
    IF procs'[p].pc = "idle" THEN procs'[p].ret.num
    ELSE word64(procs'[p].acc)

\* C30: an entry whose evicted bit is set is absent for every observer: it
\* is not passed to the callback of Iterate, it is not counted by NumItems,
\* and Load does not return it.
C30_EvictedIsAbsent ==
    [][\A p \in DOMAIN procs :
          /\ procs[p].pc = "Iterate" /\ procs'[p] # procs[p]
                 => keysPassed(p) \subseteq
                        {heap[id].key : id \in notEvictedIn(shards[procs[p].idx], heap)}
          /\ procs[p].pc = "NumItems" /\ procs'[p] # procs[p]
                 => \E n \in 0..Cardinality(notEvictedIn(shards[procs[p].idx], heap)) :
                        itemsCounted(p) = word64(procs[p].acc + n)
          /\ procs[p].pc = "load_live" /\ procs'[p].pc = "idle" /\ procs'[p].ret.ok
                 => ~IsEvicted(heap[procs[p].entry])
      ]_vars
\* The entries that stay in the map of their shard over a step and whose
\* value, flags or expire_at the step changes.
mutatedEntries ==
    {id \in UNION {pointersOf(shards[s].m) \cap pointersOf(shards'[s].m)
                       : s \in 1..Len(shards)} :
        /\ heap'[id].key = heap[id].key
        /\ \/ heap'[id].value # heap[id].value
           \/ heap'[id].flags # heap[id].flags
           \/ heap'[id].expireAt # heap[id].expireAt}

\* C29: every step that changes the value, the flags or the expire_at of an
\* entry that is in the map leaves the entry's cas strictly greater than it
\* was before.
C29_CasGrowsOnMutation ==
    [][\A id \in mutatedEntries : less64(heap[id].cas, heap'[id].cas)]_vars
\* The request that the handler of connection cn reads next is an
\* authentication failure: a RESP command other than AUTH and PING before a
\* successful AUTH, or an AUTH with another password; an HTTP request
\* without "Authorization: Bearer" and the password; a Postgres message
\* other than a password before a correct password, or a wrong password.
authFailure(cn) ==
    CASE cn.pc = "Redis" ->
            LET r == readCommand(unread(cn), cn.fin) IN
            /\ r.st = "ok" /\ Len(r.cmd) > 0
            /\ \/ ~cn.authenticated /\ ToUpper(r.cmd[1]) \notin {AUTH, PING}
               \/ ToUpper(r.cmd[1]) = AUTH /\ Len(r.cmd) = 2 /\ r.cmd[2] # server.Auth
      [] cn.pc = "HTTP" ->
            LET req == ReadRequest(unread(cn), cn.fin) IN
            req.st = "ok" /\ ~authorized(req, server.Auth)
      [] cn.pc = "PostgresLoop" ->
            LET s == unread(cn) IN
            /\ Len(s) >= 5 /\ Len(s) >= Uint32(SubSeq(s, 2, 5)) + 1
            /\ \/ ~cn.authenticated /\ s[1] # 112
               \/ s[1] = 112
                    /\ trimRightOf(SubSeq(s, 6, Uint32(SubSeq(s, 2, 5)) + 1), {0})
                           # server.Auth
      [] OTHER -> FALSE

\* A reply that reports an error.
isErrorReply(r) ==
    \/ r.kind = "error"
    \/ r.kind = "E"
    \/ r.kind = "HTTP" /\ r.num = word64(401)

\* C21: when a handler takes a request that is an authentication failure,
\* it sends an error response for it before it reads again (the response
\* is on the socket or being written to it, not held back in a buffer), the
\* cache is left as it was, and the handler stays in its loop on the open
\* connection.
C21_AuthFailureAnswered ==
    [][\A c \in DOMAIN conns :
          Len(conns'[c].got) > Len(conns[c].got) /\ authFailure(conns[c])
              => /\ conns'[c].wbuf = <<>>
                 /\ \E r \in {conns'[c].out[i] : i \in DOMAIN conns'[c].out}
                           \cup {conns'[c].writing[i] : i \in DOMAIN conns'[c].writing} :
                        /\ isErrorReply(r)
                        /\ Len(conns'[c].out) + Len(conns'[c].writing)
                               = Len(conns[c].out) + 1
                 /\ shards' = shards
                 /\ heap' = heap
                 /\ conns'[c].pc = conns[c].pc
      ]_vars
\* C22: no handler does network I/O on its connection while it holds the
\* lock of a shard: a handler that holds a read lock has no message to
\* write to the socket, so that a client that does not read keeps no writer
\* of the shard waiting.
C22_NoSocketIOUnderShardLock ==
    \A c \in DOMAIN conns : conns[c].holds # 0 => conns[c].writing = <<>>
\* The signal has arrived.
interrupted == server.signal # "<-sigCh"

\* Start has returned.
startReturned == server.start = Len(server.listeners) + 2

\* C23: after SIGINT/SIGTERM the context is cancelled and every listener is
\* closed; every accept loop and the sweeper then return and Start returns;
\* no connection is accepted after that; and no handler that runs is
\* interrupted: a connection ends only when its own handler returns.
C23_Shutdown ==
    /\ interrupted ~> (server.cancelled
                          /\ \A i \in DOMAIN server.listeners : server.listeners[i] = "closed")
    /\ interrupted ~> (/\ \A i \in DOMAIN server.serve : server.serve[i] = "returned"
                       /\ server.sweeper \in {"none", "returned"}
                       /\ startReturned)
    /\ [][startReturned => Len(conns') = Len(conns)]_vars
    /\ [](\A c \in DOMAIN conns : conns[c].pc # "Killed")
\* C31: a Load never removes a live entry: when its Delete runs, the key
\* holds no entry that a Load would hit (the entry it observed expired or
\* evicted is the one it removes, and a value stored in between is kept).
C31_LoadRemovesOnlyStale ==
    [][\A p \in DOMAIN procs :
           (procs[p].pc = "load_delete" /\ procs'[p].pc = "idle")
           => ~loadHits(procs[p].key)]_vars
\* C32: mem_used of every shard is non-negative in every reachable state of
\* a cache with max_memory > 0: the size of an entry is never subtracted
\* more often than it was added.
C32_MemUsedNonNegative ==
    maxMemory > 0 => \A s \in 1..Len(shards) : shards[s].memUsed >= 0
\* C33: eviction never picks an entry that is already marked evicted: every
\* eviction counted in num_evicted marks an entry of the shard that was not
\* marked before, so each entry is marked, subtracted and counted at most
\* once and num_evicted is the number of distinct entries evicted.
C33_EvictsUnmarkedOnly ==
    [][\A s \in 1..Len(shards) :
           shards'[s].numEvicted = shards[s].numEvicted + 1 =>
               \E id \in pointersOf(shards[s].m) :
                   ~IsEvicted(heap[id]) /\ id \in DOMAIN heap' /\ IsEvicted(heap'[id])
      ]_vars
\* The capacity rules of one map: numItems is the number of occupied
\* buckets and at most growAt = floor(0.75 * capacity), which is below the
\* capacity, so a bucket is empty; shrinkAt = floor(0.10 * capacity).
capacityRules(m) ==
    /\ m.numItems = Cardinality(occupied(m))
    /\ m.growAt = (3 * Len(m.buckets)) \div 4
    /\ m.shrinkAt = Len(m.buckets) \div 10
    /\ m.numItems <= m.growAt
    /\ m.growAt < Len(m.buckets)
    /\ \E i \in 1..Len(m.buckets) : m.buckets[i].entry = NIL

\* The step from map m to map n is a grow: the capacity doubles for the
\* insert of a new key into a table that is at its threshold.
grows(m, n) ==
    /\ Len(n.buckets) = 2 * Len(m.buckets)
    /\ m.numItems = m.growAt
    /\ n.numItems = m.numItems + 1

\* The step from map m to map n is a shrink: the capacity is halved by the
\* removal that leaves fewer than floor(0.10 * capacity) items in a table
\* of more than 16 buckets, and the new table is below its own threshold.
shrinks(m, n) ==
    /\ 2 * Len(n.buckets) = Len(m.buckets)
    /\ Len(m.buckets) > 16
    /\ n.numItems = m.numItems - 1
    /\ n.numItems < m.shrinkAt
    /\ n.numItems < n.growAt

\* C34: in every reachable map state numItems equals the number of occupied
\* buckets and numItems <= growAt = floor(0.75 * capacity) < capacity, so at
\* least one bucket is empty and the probe loops of insertInternal and
\* lookup end; the capacity changes only by a grow that doubles it before
\* the insert that would exceed the threshold, or by a shrink that halves it
\* when numItems < floor(0.10 * capacity) and capacity > 16.
C34_CapacityRules ==
    /\ [](\A s \in 1..Len(shards) : capacityRules(shards[s].m))
    /\ [][\A s \in 1..Len(shards) :
              Len(shards'[s].m.buckets) # Len(shards[s].m.buckets) =>
                  \/ grows(shards[s].m, shards'[s].m)
                  \/ shrinks(shards[s].m, shards'[s].m)]_vars

\* C34 witness: a Store has just doubled a table of 16 buckets that held 12
\* entries, and its probe loop has placed the thirteenth.
C34_Witness ==
    /\ procs[1].ret.op = "Store"
    /\ \E s \in 1..Len(shards) :
           /\ Len(shards[s].m.buckets) = 2 * MinMapSize
           /\ shards[s].m.numItems = growAtOf(MinMapSize) + 1
\* C35: no cache operation takes a shard lock while it holds one, so every
\* call of every cache operation returns under fair scheduling: a client
\* inside a call is eventually outside of it, and a scan that holds the
\* read lock of a shard eventually releases it.
C35_EveryCallReturns ==
    /\ \A p \in {1} : procs[p].pc # "idle" ~> procs[p].pc = "idle"
    /\ \A c \in {1} : conns[c].holds # 0 ~> conns[c].holds = 0
\* C36: conditional stores are atomic.  When the Store of SET k v NX runs,
\* the key is absent, and when the Store of SET k v XX runs, the key is
\* present: of two clients that send SET k v NX for an absent key at most
\* one is answered OK, and XX never creates a key.
C36_ConditionalStoreAtomic ==
    [][\A c \in DOMAIN conns :
           (conns[c].pc = "RedisSet" /\ conns'[c].pc = "Redis")
           => (setOption(conns[c].args) = <<78, 88>>) = ~loadHits(conns[c].args[2])
      ]_vars
\* C37: protocol detection never stalls a client that waits for a reply:
\* once the client has sent its complete first request, however short, and
\* keeps the connection open, Detect returns a classification and the
\* handler answers the request.
C37_DetectionAnswers ==
    \A c \in {1} :
        (conns[c].todo = <<>> /\ conns[c].fin = "open")
            ~> (conns[c].protoType # "" /\ conns[c].out # <<>>)

\* C38: no client input takes a handler out of its defined states.  No
\* connection is ended by a panic of a handler, its own or another
\* connection's, and no Postgres handler makes for the parameters of a
\* startup packet a buffer larger than the packet's length says, that is
\* of a size that has wrapped around.
C38_InputHandledAsError ==
    \A c \in DOMAIN conns :
        /\ conns[c].pc # "Crashed"
        /\ (conns[c].pc = "Postgres" /\ Len(unread(conns[c])) >= 8
                /\ Uint32(SubSeq(unread(conns[c]), 5, 8)) = 196608)
              => startupParams(Uint32(SubSeq(unread(conns[c]), 1, 4))).hi
                     <= Uint32(SubSeq(unread(conns[c]), 1, 4)) \div 65536

\* The entry of the key is in the map and is expired or marked evicted: a
\* Load of the key at this moment reports a miss.
stale(key) ==
    LET e == get(shards[getShard(Len(shards), key)].m, heap, key) IN
    e # NIL /\ (IsEvicted(heap[e]) \/ IsExpired(heap[e], now))

\* C39: Increment and CompareAndSwap treat a key whose entry is in the map
\* but expired or marked evicted as absent: the Increment returns delta and
\* the CompareAndSwap returns false.
C39_StaleTreatedAsAbsent ==
    [][\A p \in DOMAIN procs :
          (procs'[p].calls = procs[p].calls + 1 /\ stale(procs'[p].ret.key))
              => /\ procs'[p].ret.op = "Increment" => procs'[p].ret.num = procs'[p].ret.val
                 /\ procs'[p].ret.op = "CompareAndSwap" => ~procs'[p].ret.ok]_vars

\* The Load calls that return in the step.
loadsReturned ==
    Cardinality({p \in DOMAIN procs : /\ procs'[p].calls = procs[p].calls + 1
                                      /\ procs'[p].ret.op = "Load"})

\* C40: Stats never divides by zero.  In every state with num_ops > 0,
\* hits + misses is greater than 0 and hit_rate is a number; num_hits +
\* num_misses is at most num_ops; and every step adds to num_hits +
\* num_misses the number of Load calls that return in it, so that the sum
\* is the number of completed Load calls.
C40_StatsNeverDividesByZero ==
    /\ [](LET st == Stats(shards, maxMemory) IN
          /\ st.num_ops > 0 => (st.num_hits + st.num_misses > 0 /\ st.hit_rate # <<"NaN">>)
          /\ st.num_hits + st.num_misses <= st.num_ops)
    /\ [][Stats(shards, maxMemory)'.num_hits + Stats(shards, maxMemory)'.num_misses
             = Stats(shards, maxMemory).num_hits + Stats(shards, maxMemory).num_misses
                   + loadsReturned]_vars

=============================================================================
